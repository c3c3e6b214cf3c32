---------------------------- MODULE TwoWireProofs -----------------------------
(***************************************************************************)
(* Proofs about the two-wire interface, for any messages, answers,         *)
(* quantities and any length of the buffers, when the slave's sketch reads *)
(* all that it gets and the master's sketch waits before it reads, as the  *)
(* sketches of the repository do.  A transfer goes through phases, and the *)
(* invariant says of each where the bytes of the transfer are.             *)
(***************************************************************************)
EXTENDS TwoWire, SequenceTheorems, TLAPS

Kept == Leaves = 0 /\ Patient

Statuses ==
  {"none", "START", "MT_SLA_ACK", "MT_SLA_NACK", "MT_DATA_ACK", "MT_DATA_NACK",
   "MR_SLA_ACK", "MR_SLA_NACK", "MR_DATA_ACK", "MR_DATA_NACK",
   "SR_SLA_ACK", "SR_DATA_ACK", "SR_STOP",
   "ST_SLA_ACK", "ST_DATA_ACK", "ST_DATA_NACK", "ST_LAST_DATA"}

NoTransfer == [kind |-> "none", number |-> 0, returned |-> TRUE]

IsTransfer(t) ==
  /\ t = [kind |-> t.kind, number |-> t.number, returned |-> t.returned, bytes |-> t.bytes,
          result |-> t.result, present |-> t.present, served |-> t.served]
  /\ t.kind \in {"write", "read"} /\ t.number \in Nat
  /\ t.returned \in BOOLEAN /\ t.present \in BOOLEAN
  /\ t.bytes \in Seq(Nat) /\ t.served \in Seq(Nat)

Typed ==
  /\ twi_state \in [Boards -> {"READY", "MTX", "MRX", "SRX", "STX"}]
  /\ transfer = NoTransfer \/ IsTransfer(transfer)
  /\ masterBuffer \in Seq(Nat) /\ left \in Seq(Nat)
  /\ rxBuffer \in Seq(Nat) /\ txBuffer \in Seq(Nat) /\ txIndex \in Nat
  /\ calling \in BOOLEAN /\ unread = 0
  /\ told \in Seq(Seq(Nat)) /\ seen \in Seq(Seq(Nat))
  /\ TWINT \in [Boards -> Statuses]
  /\ TWEA \in [Boards -> BOOLEAN]
  /\ TWDR \in [Boards -> Nat]

Writes == transfer.kind = "write"
Reads == transfer.kind = "read"

\* What a call is to return.
Expected ==
  IF ~transfer.present THEN <<>>
  ELSE [i \in DOMAIN transfer.bytes |->
         IF i <= Len(transfer.served) THEN transfer.served[i] ELSE ONES]

Outcome ==
  IF transfer.returned
  THEN /\ Writes => transfer.result = IF transfer.present THEN 0 ELSE 2
       /\ Reads => transfer.result = Expected
  ELSE /\ IsTransfer(transfer)
       /\ Writes => twi_error = IF transfer.present THEN "none" ELSE "MT_SLA_NACK"
       /\ Reads => masterBuffer = Expected

Idle ==
  /\ twi_state["master"] = "READY" /\ bus = "free" /\ TWINT["master"] = "none"
  /\ addressed = "no" /\ TWEA["slave"]
  /\ TWINT["slave"] = "none" \/ (TWINT["slave"] = "SR_STOP" /\ ~calling)
  /\ Outcome

\* A call that waits for the handler.
Active ==
  /\ twi_state["master"] # "READY"
  /\ IsTransfer(transfer) /\ ~transfer.returned
  /\ Len(transfer.bytes) <= BUFFER_LENGTH
  /\ Reads => ~calling

Opening ==
  /\ Active
  /\ \/ bus \in {"START", "ADDRESS"} /\ TWINT["master"] = "none"
     \/ bus = "held" /\ TWINT["master"] = "START"
  /\ addressed = "no" /\ TWEA["slave"]
  /\ \/ TWINT["slave"] = "none"
     \/ TWINT["slave"] = "SR_STOP" /\ ~calling /\ bus = "START" /\ Writes
  /\ masterBuffer = <<>> /\ twi_error = "none" /\ transfer.served = <<>>
  /\ Writes => left = transfer.bytes
  /\ Reads => Len(transfer.bytes) = Len(left) + 1

Refused ==
  /\ Active
  /\ ~transfer.present
  /\ addressed = "no" /\ TWEA["slave"] /\ TWINT["slave"] = "none" /\ masterBuffer = <<>>
  /\ \/ /\ bus = "held" /\ twi_error = "none"
        /\ TWINT["master"] = IF Writes THEN "MT_SLA_NACK" ELSE "MR_SLA_NACK"
     \/ /\ bus = "STOP" /\ TWINT["master"] = "none"
        /\ twi_error = IF Writes THEN "MT_SLA_NACK" ELSE "none"

\* What the slave has of a message, once it has answered, and with what is on
\* the way to it.
Heard ==
  IF TWINT["slave"] = "SR_SLA_ACK" THEN <<>>
  ELSE IF TWINT["slave"] = "SR_DATA_ACK" THEN Append(rxBuffer, TWDR["slave"])
  ELSE rxBuffer
Sent == IF bus = "DATA" THEN Append(Heard, TWDR["master"]) ELSE Heard

Writing ==
  /\ Active /\ Writes
  /\ transfer.present
  /\ addressed = "write" /\ TWEA["slave"] /\ twi_error = "none"
  /\ TWINT["slave"] \in {"none", "SR_SLA_ACK", "SR_DATA_ACK"}
  /\ calling => TWINT["slave"] = "SR_SLA_ACK"
  /\ \/ bus = "held" /\ TWINT["master"] \in {"MT_SLA_ACK", "MT_DATA_ACK"}
     \/ bus = "DATA" /\ TWINT["master"] = "none"
     \/ bus = "STOP" /\ TWINT["master"] = "none" /\ left = <<>>
  /\ transfer.bytes = Sent \o left

\* What the master has of an answer, with the byte in its unit.
Got ==
  IF TWINT["master"] \in {"MR_DATA_ACK", "MR_DATA_NACK"}
  THEN Append(masterBuffer, TWDR["master"]) ELSE masterBuffer

AsServed(bytes) ==
  \A i \in 1 .. Len(bytes) :
    bytes[i] = IF i <= Len(transfer.served) THEN transfer.served[i] ELSE ONES

\* The slave's side of an answer of which the master got k bytes.
Serving(k) ==
  IF addressed = "read"
  THEN \/ TWINT["slave"] = "ST_SLA_ACK" /\ k = 0
       \/ /\ TWINT["slave"] = "ST_DATA_ACK"
          /\ txBuffer = transfer.served /\ txIndex = k
          /\ k < Len(transfer.served)
       \/ /\ TWINT["slave"] = "none"
          /\ txBuffer = transfer.served /\ txIndex = k + 1
          /\ k < Len(transfer.served)
          /\ TWDR["slave"] = transfer.served[k + 1]
          /\ (TWEA["slave"] <=> k + 1 < Len(transfer.served))
  ELSE /\ addressed = "no"
       /\ \/ TWINT["slave"] \in {"ST_DATA_NACK", "ST_LAST_DATA"}
          \/ TWINT["slave"] = "none" /\ TWEA["slave"]
       /\ k >= Len(transfer.served) \/ k = Len(transfer.bytes)

\* The master's side.
Fetching(k, n) ==
  \/ bus = "held" /\ TWINT["master"] = "MR_SLA_ACK" /\ k = 0
  \/ bus = "held" /\ TWINT["master"] = "MR_DATA_ACK" /\ k < n
  \/ bus = "held" /\ TWINT["master"] = "MR_DATA_NACK" /\ k = n /\ addressed = "no"
  \/ /\ bus = "DATA" /\ TWINT["master"] = "none" /\ k < n
     /\ (TWEA["master"] <=> k + 1 < n)
  \/ bus = "STOP" /\ TWINT["master"] = "none" /\ k = n /\ addressed = "no"

Reading ==
  /\ Active /\ Reads
  /\ transfer.present
  /\ Len(transfer.bytes) = Len(left) + 1
  /\ AsServed(Got)
  /\ Serving(Len(Got))
  /\ Fetching(Len(Got), Len(transfer.bytes))

Phase == Idle \/ Opening \/ Refused \/ Writing \/ Reading

\* The messages that count as told, and those that the sketch has seen or will.
Told ==
  IF ~transfer.returned /\ twi_state["master"] = "READY" /\ Writes /\ twi_error = "none"
  THEN Append(told, transfer.bytes) ELSE told
Seen == IF TWINT["slave"] = "SR_STOP" THEN Append(seen, rxBuffer) ELSE seen

IInv == Typed /\ Phase /\ Seen = Told

-----------------------------------------------------------------------------
(* What the operators give.                                                *)

LEMMA SmallerOfTwo ==
  ASSUME NEW a \in Nat, NEW b \in Nat
  PROVE  Min({a, b}) = IF a <= b THEN a ELSE b
<1>1. \E x \in {a, b} : \A y \in {a, b} : x <= y
  <2>1. CASE a <= b
    BY <2>1
  <2>2. CASE ~(a <= b)
    BY <2>2
  <2>3. QED
    BY <2>1, <2>2
<1>2. /\ Min({a, b}) \in {a, b}
      /\ \A y \in {a, b} : Min({a, b}) <= y
  BY <1>1 DEF Min
<1>3. QED
  BY <1>2

\* What the master sends fits.
LEMMA BufferedFits ==
  ASSUME NEW m \in Messages
  PROVE  Buffered(m) \in Seq(Nat) /\ Len(Buffered(m)) <= BUFFER_LENGTH
<1> DEFINE k == Min({Len(m), BUFFER_LENGTH})
<1>1. m \in Seq(Nat) /\ BUFFER_LENGTH \in Nat
  BY TwoWireAssumption
<1>2. k \in 0 .. Len(m) /\ k <= BUFFER_LENGTH
  BY <1>1, SmallerOfTwo
<1> HIDE DEF k
<1>3. SubSeq(m, 1, k) \in Seq(Nat) /\ Len(SubSeq(m, 1, k)) = k
  BY <1>1, <1>2, SubSeqProperties
<1>4. QED
  BY <1>2, <1>3 DEF Buffered, k

\* What it asks for fits, and is something.
LEMMA ClampedFits ==
  ASSUME NEW q \in Quantities
  PROVE  Clamped(q) \in Nat /\ 0 < Clamped(q) /\ Clamped(q) <= BUFFER_LENGTH
<1>1. q \in Nat /\ 0 < q /\ BUFFER_LENGTH \in Nat /\ 0 < BUFFER_LENGTH
  BY TwoWireAssumption
<1>2. QED
  BY <1>1, SmallerOfTwo DEF Clamped

LEMMA LengthsAsked ==
  ASSUME NEW n \in Nat, 0 < n
  PROVE  /\ FullLength(n) \in Seq(Nat) /\ Len(FullLength(n)) = n
         /\ ReadLength(n) \in Seq(Nat) /\ Len(ReadLength(n)) = n - 1
<1>1. ONES \in Nat /\ n - 1 \in Nat
  BY DEF ONES
<1>2. QED
  BY <1>1 DEF FullLength, ReadLength

\* An answer of the slave's sketch is not empty when it is sent.
LEMMA AnsweredSomething ==
  ASSUME NEW r \in Replies
  PROVE  Answered(r) \in Seq(Nat) /\ Len(Answered(r)) > 0
<1>1. r \in Seq(Nat)
  BY TwoWireAssumption
<1>2. QED
  BY <1>1 DEF Answered

\* An answer to the interrupt of one board leaves the other alone.
LEMMA Replied ==
  ASSUME Typed, NEW b \in Boards, NEW ack \in BOOLEAN, Reply(b, ack)
  PROVE  /\ TWINT' \in [Boards -> Statuses] /\ TWEA' \in [Boards -> BOOLEAN]
         /\ TWINT'[b] = "none" /\ TWEA'[b] = ack
         /\ \A c \in Boards : c # b => TWINT'[c] = TWINT[c] /\ TWEA'[c] = TWEA[c]
BY DEF Typed, Reply, Statuses

LEMMA TwoBoards == "master" \in Boards /\ "slave" \in Boards
BY DEF Boards

LEMMA AllDone ==
  ASSUME NEW command, Clock(command)
  PROVE  bus = command /\ TWINT["master"] = "none" /\ TWINT["slave"] = "none"
BY TwoBoards DEF Clock

LEMMA BothTold ==
  ASSUME NEW m \in Statuses, NEW s \in Statuses, Interrupts(m, s)
  PROVE  TWINT' \in [Boards -> Statuses] /\ TWINT'["master"] = m /\ TWINT'["slave"] = s
BY TwoBoards DEF Interrupts, Boards

\* Moving the first element of one sequence to the end of another.
LEMMA MovedOver ==
  ASSUME NEW a \in Seq(Nat), NEW b \in Seq(Nat), b # <<>>
  PROVE  Append(a, Head(b)) \o Tail(b) = a \o b
<1> DEFINE l == Append(a, Head(b)) \o Tail(b)
           r == a \o b
<1>1. /\ Head(b) = b[1] /\ Head(b) \in Nat /\ Tail(b) \in Seq(Nat)
      /\ Len(Tail(b)) = Len(b) - 1 /\ Len(b) > 0
      /\ \A i \in 1 .. Len(b) - 1 : Tail(b)[i] = b[i + 1]
  BY HeadTailProperties
<1>2. /\ Append(a, Head(b)) \in Seq(Nat) /\ Len(Append(a, Head(b))) = Len(a) + 1
      /\ Append(a, Head(b))[Len(a) + 1] = b[1]
      /\ \A i \in 1 .. Len(a) : Append(a, Head(b))[i] = a[i]
  BY <1>1, AppendProperties
<1>3. /\ l \in Seq(Nat) /\ Len(l) = Len(a) + Len(b)
      /\ \A i \in 1 .. Len(l) :
           l[i] = IF i <= Len(a) + 1 THEN Append(a, Head(b))[i]
                  ELSE Tail(b)[i - (Len(a) + 1)]
  BY <1>1, <1>2, ConcatProperties
<1>4. /\ r \in Seq(Nat) /\ Len(r) = Len(a) + Len(b)
      /\ \A i \in 1 .. Len(r) : r[i] = IF i <= Len(a) THEN a[i] ELSE b[i - Len(a)]
  BY ConcatProperties
<1>5. ASSUME NEW i \in 1 .. Len(l) PROVE l[i] = r[i]
  <2>1. CASE i <= Len(a)
    BY <1>2, <1>3, <1>4, <2>1
  <2>2. CASE i = Len(a) + 1
    BY <1>2, <1>3, <1>4, <2>2
  <2>3. CASE i > Len(a) + 1
    <3>1. l[i] = Tail(b)[i - (Len(a) + 1)] /\ r[i] = b[i - Len(a)]
      BY <1>3, <1>4, <2>3
    <3>2. i - (Len(a) + 1) \in 1 .. Len(b) - 1
      BY <1>3, <2>3
    <3>3. QED
      BY <1>1, <3>1, <3>2
  <2>4. QED
    BY <1>3, <2>1, <2>2, <2>3
<1>6. QED
  BY <1>3, <1>4, <1>5, SeqEqual

LEMMA InitHolds == ASSUME Init PROVE IInv
<1> USE TwoBoards
<1>1. Typed
  <2>1. /\ twi_state \in [Boards -> {"READY", "MTX", "MRX", "SRX", "STX"}]
        /\ transfer = NoTransfer
    BY DEF Init, NoTransfer
  <2>2. /\ masterBuffer \in Seq(Nat) /\ left \in Seq(Nat)
        /\ rxBuffer \in Seq(Nat) /\ txBuffer \in Seq(Nat) /\ txIndex \in Nat
        /\ calling \in BOOLEAN /\ unread = 0
        /\ told \in Seq(Seq(Nat)) /\ seen \in Seq(Seq(Nat))
    <3>1. \A S : <<>> \in Seq(S)
      OBVIOUS
    <3>2. QED
      BY <3>1 DEF Init
  <2>3. /\ TWINT \in [Boards -> Statuses] /\ TWEA \in [Boards -> BOOLEAN]
        /\ TWDR \in [Boards -> Nat]
    BY DEF Init, Statuses, ONES
  <2>4. QED
    BY <2>1, <2>2, <2>3 DEF Typed
<1>2. Idle
  BY DEF Init, Idle, Outcome, Writes, Reads
<1>3. Seen = Told
  BY DEF Init, Seen, Told
<1>4. QED
  BY <1>1, <1>2, <1>3 DEF IInv, Phase

-----------------------------------------------------------------------------
(* The steps of the master's sketch.                                       *)

\* A call finds the bus at rest, and nothing to be told.
LEMMA CallFindsIdle ==
  ASSUME IInv, transfer.returned
  PROVE  Idle /\ Seen = Told /\ Told = told
<1>1. ~Active
  BY DEF Active
<1>2. Idle
  BY <1>1 DEF IInv, Phase, Opening, Refused, Writing, Reading
<1>3. QED
  BY <1>2 DEF IInv, Told

LEMMA CallTyped ==
  ASSUME Typed, NEW kind \in {"write", "read"}, NEW state \in {"MTX", "MRX"},
         NEW bytes \in Seq(Nat), Call(kind, state, bytes), left' \in Seq(Nat)
  PROVE  /\ Typed' /\ IsTransfer(transfer') /\ transfer'.kind = kind
         /\ transfer'.bytes = bytes /\ ~transfer'.returned /\ transfer'.served = <<>>
         /\ twi_state'["master"] # "READY"
<1>1. transfer.number + 1 \in Nat
  BY DEF Typed, NoTransfer, IsTransfer
<1>2. /\ IsTransfer(transfer') /\ transfer'.kind = kind
      /\ transfer'.bytes = bytes /\ ~transfer'.returned /\ transfer'.served = <<>>
  BY <1>1 DEF Call, IsTransfer
<1>3. /\ twi_state' \in [Boards -> {"READY", "MTX", "MRX", "SRX", "STX"}]
      /\ twi_state'["master"] # "READY"
  BY TwoBoards DEF Call, Typed
<1>4. QED
  BY <1>2, <1>3 DEF Call, Typed

LEMMA WriteToHolds ==
  ASSUME IInv, NEW m \in Messages, WriteTo(m)
  PROVE  IInv'
<1>1. Idle /\ Seen = told
  BY CallFindsIdle DEF WriteTo, MayCall
<1>2. Buffered(m) \in Seq(Nat) /\ Len(Buffered(m)) <= BUFFER_LENGTH
  BY BufferedFits
<1>3. /\ Typed' /\ IsTransfer(transfer') /\ transfer'.kind = "write"
      /\ transfer'.bytes = Buffered(m) /\ ~transfer'.returned /\ transfer'.served = <<>>
      /\ twi_state'["master"] # "READY"
  BY <1>2, CallTyped DEF WriteTo, IInv
<1>4. Opening'
  BY <1>1, <1>2, <1>3 DEF WriteTo, Call, Opening, Idle, Active, Writes, Reads
<1>5. (Seen = Told)'
  BY <1>1, <1>3 DEF WriteTo, Call, Seen, Told
<1>6. QED
  BY <1>3, <1>4, <1>5 DEF IInv, Phase

LEMMA ReadFromHolds ==
  ASSUME Kept, IInv, NEW q \in Quantities, ReadFrom(q)
  PROVE  IInv'
<1> DEFINE n == Clamped(q)
<1>1. Idle /\ Seen = told /\ TWINT["slave"] = "none" /\ ~calling
  BY CallFindsIdle DEF ReadFrom, MayCall, Kept
<1>2. n \in Nat /\ 0 < n /\ n <= BUFFER_LENGTH
  BY ClampedFits
<1>3. /\ Call("read", "MRX", FullLength(n)) /\ left' = ReadLength(n)
  BY DEF ReadFrom
<1> HIDE DEF n
<1>4. /\ FullLength(n) \in Seq(Nat) /\ Len(FullLength(n)) = n
      /\ ReadLength(n) \in Seq(Nat) /\ Len(ReadLength(n)) = n - 1
  BY <1>2, LengthsAsked
<1>5. /\ Typed' /\ IsTransfer(transfer') /\ transfer'.kind = "read"
      /\ transfer'.bytes = FullLength(n) /\ ~transfer'.returned
      /\ transfer'.served = <<>> /\ twi_state'["master"] # "READY"
  BY <1>3, <1>4, CallTyped DEF IInv
<1>6. Opening'
  BY <1>1, <1>2, <1>3, <1>4, <1>5 DEF Call, Opening, Idle, Active, Writes, Reads
<1>7. (Seen = Told)'
  BY <1>1, <1>3, <1>5 DEF Call, Seen, Told
<1>8. QED
  BY <1>5, <1>6, <1>7 DEF IInv, Phase

\* The call returns what the phase promised, and counts as told when it says so.
LEMMA ReturnHolds ==
  ASSUME IInv, Return
  PROVE  IInv'
<1>1. ~transfer.returned /\ twi_state["master"] = "READY"
  BY DEF Return
<1>2. Idle
  BY <1>1 DEF IInv, Phase, Opening, Refused, Writing, Reading, Active
<1>3. IsTransfer(transfer) /\ Typed
  BY <1>1, <1>2 DEF Idle, Outcome, IInv
<1>4. /\ transfer' = [transfer EXCEPT !.returned = TRUE, !.result = transfer'.result]
      /\ transfer'.result = IF Writes THEN Status ELSE masterBuffer
  BY <1>3 DEF Return, IsTransfer, Writes
<1>5. /\ IsTransfer(transfer') /\ transfer'.returned
      /\ transfer'.kind = transfer.kind /\ transfer'.bytes = transfer.bytes
      /\ transfer'.present = transfer.present /\ transfer'.served = transfer.served
  BY <1>3, <1>4 DEF IsTransfer
<1>6. UNCHANGED <<twi_state, masterBuffer, left, twi_error, rxBuffer, txBuffer, txIndex,
                  calling, unread, seen, TWINT, TWEA, TWDR, bus, addressed>>
  BY DEF Return, driver, unit
<1>7. (Writes /\ transfer.present => Status = 0) /\ (Writes /\ ~transfer.present => Status = 2)
  BY <1>1, <1>2 DEF Idle, Outcome, Status
<1>8. Writes /\ Status = 0 <=> Writes /\ twi_error = "none"
  BY <1>1, <1>2, <1>7 DEF Idle, Outcome
<1>9. told' = Told
  BY <1>1, <1>8 DEF Return, Told, Writes
<1>10. Typed'
  <2>1. told' \in Seq(Seq(Nat))
    BY <1>3, <1>9 DEF Typed, Told, IsTransfer
  <2>2. QED
    BY <1>3, <1>5, <1>6, <2>1 DEF Typed
<1>11. Idle'
  BY <1>1, <1>2, <1>4, <1>5, <1>6, <1>7 DEF Idle, Outcome, Expected, Writes, Reads
<1>12. (Seen = Told)'
  BY <1>5, <1>6, <1>9 DEF IInv, Seen, Told
<1>13. QED
  BY <1>10, <1>11, <1>12 DEF IInv, Phase

-----------------------------------------------------------------------------
(* The steps of the handler on the master.                                 *)

\* Nothing changes for the slave, and what was called is still under way.
LEMMA MastersKeep ==
  ASSUME IInv, Masters, ~transfer.returned, twi_state["master"] # "READY",
         NEW ack \in BOOLEAN, Reply("master", ack),
         left' \in Seq(Nat), masterBuffer' \in Seq(Nat), TWDR' \in [Boards -> Nat]
  PROVE  /\ Typed' /\ (Seen = Told)'
         /\ Active => Active'
         /\ TWINT'["master"] = "none" /\ TWEA'["master"] = ack
         /\ TWINT'["slave"] = TWINT["slave"] /\ TWEA'["slave"] = TWEA["slave"]
<1> USE TwoBoards
<1>1. Typed /\ Seen = Told
  BY DEF IInv
<1>2. /\ TWINT' \in [Boards -> Statuses] /\ TWEA' \in [Boards -> BOOLEAN]
      /\ TWINT'["master"] = "none" /\ TWEA'["master"] = ack
      /\ TWINT'["slave"] = TWINT["slave"] /\ TWEA'["slave"] = TWEA["slave"]
  BY <1>1, Replied
<1>3. Typed'
  BY <1>1, <1>2 DEF Typed, Masters, sketch
<1>4. (Seen = Told)'
  BY <1>1, <1>2 DEF Seen, Told, Masters, sketch, Writes
<1>5. Active => Active'
  BY DEF Active, Masters, sketch, Reads
<1>6. QED
  BY <1>2, <1>3, <1>4, <1>5

\* An interrupt on the master comes in the middle of a call.
LEMMA MasterBusy ==
  ASSUME IInv, TWINT["master"] # "none"
  PROVE  /\ Active /\ ~transfer.returned /\ twi_state["master"] # "READY" /\ Typed
         /\ bus = "held"
         /\ TWINT["master"] = "START" => Opening
         /\ TWINT["master"] \in {"MT_SLA_NACK", "MR_SLA_NACK"} => Refused
         /\ TWINT["master"] \in {"MT_SLA_ACK", "MT_DATA_ACK"} => Writing
         /\ TWINT["master"] \in {"MR_SLA_ACK", "MR_DATA_ACK", "MR_DATA_NACK"} => Reading
         /\ TWINT["master"] # "MT_DATA_NACK"
BY DEF IInv, Phase, Idle, Opening, Refused, Writing, Reading, Active, Fetching

LEMMA SendAddressHolds ==
  ASSUME IInv, SendAddress
  PROVE  IInv'
<1>1. Opening /\ Active /\ Typed /\ ~transfer.returned /\ twi_state["master"] # "READY"
      /\ bus = "held"
  BY MasterBusy DEF SendAddress, Interrupted
<1>2. /\ Reply("master", TRUE) /\ bus' = "ADDRESS" /\ Masters
      /\ UNCHANGED <<masterBuffer, left, twi_error, TWDR>>
  BY DEF SendAddress
<1>3. /\ Typed' /\ (Seen = Told)' /\ Active'
      /\ TWINT'["master"] = "none"
      /\ TWINT'["slave"] = TWINT["slave"] /\ TWEA'["slave"] = TWEA["slave"]
  BY <1>1, <1>2, MastersKeep DEF Typed
<1>4. Opening'
  BY <1>1, <1>2, <1>3 DEF Opening, Masters, sketch, Writes, Reads
<1>5. QED
  BY <1>3, <1>4 DEF IInv, Phase

\* The next byte is on its way, or there is none.
LEMMA SendNextHolds ==
  ASSUME IInv, SendNext
  PROVE  IInv'
<1>1. Writing /\ Active /\ Typed /\ ~transfer.returned /\ twi_state["master"] # "READY"
      /\ bus = "held"
  BY MasterBusy DEF SendNext, Interrupted
<1>2. Masters /\ UNCHANGED <<masterBuffer, twi_error>>
  BY DEF SendNext
<1>3. transfer.bytes = Heard \o left /\ Heard \in Seq(Nat)
  BY <1>1, TwoBoards DEF Writing, Sent, Heard, Typed
<1>4. CASE left # <<>>
  <2>1. /\ TWDR' = [TWDR EXCEPT !["master"] = Head(left)] /\ left' = Tail(left)
        /\ Reply("master", TRUE) /\ bus' = "DATA"
    BY <1>4 DEF SendNext
  <2>2. Head(left) \in Nat /\ Tail(left) \in Seq(Nat)
    BY <1>1, <1>4, HeadTailProperties DEF Typed
  <2>3. /\ TWDR' \in [Boards -> Nat]
        /\ TWDR'["master"] = Head(left) /\ TWDR'["slave"] = TWDR["slave"]
    BY <1>1, <2>1, <2>2, TwoBoards DEF Typed
  <2>4. /\ Typed' /\ (Seen = Told)' /\ Active'
        /\ TWINT'["master"] = "none"
        /\ TWINT'["slave"] = TWINT["slave"] /\ TWEA'["slave"] = TWEA["slave"]
    BY <1>1, <1>2, <2>1, <2>2, <2>3, MastersKeep DEF Typed
  <2>5. Heard' = Heard
    BY <1>2, <2>3, <2>4 DEF Heard, Masters
  <2>6. Append(Heard, Head(left)) \o Tail(left) = Heard \o left
    BY <1>1, <1>3, <1>4, MovedOver DEF Typed
  <2>7. transfer'.bytes = Sent' \o left'
    BY <1>2, <1>3, <2>1, <2>3, <2>5, <2>6 DEF Sent, Masters, sketch
  <2>8. Writing'
    BY <1>1, <1>2, <2>1, <2>4, <2>7 DEF Writing, Masters, sketch, Writes
  <2>9. QED
    BY <2>4, <2>8 DEF IInv, Phase
<1>5. CASE left = <<>>
  <2>1. Reply("master", TRUE) /\ bus' = "STOP" /\ UNCHANGED <<TWDR, left>>
    BY <1>5 DEF SendNext, Stop
  <2>2. /\ Typed' /\ (Seen = Told)' /\ Active'
        /\ TWINT'["master"] = "none"
        /\ TWINT'["slave"] = TWINT["slave"] /\ TWEA'["slave"] = TWEA["slave"]
    BY <1>1, <1>2, <2>1, MastersKeep DEF Typed
  <2>3. Heard' = Heard
    BY <1>2, <2>1, <2>2 DEF Heard, Masters
  <2>4. transfer'.bytes = Sent' \o left'
    BY <1>2, <1>3, <2>1, <2>3 DEF Sent, Masters, sketch
  <2>5. Writing'
    BY <1>1, <1>2, <1>5, <2>1, <2>2, <2>4 DEF Writing, Masters, sketch, Writes
  <2>6. QED
    BY <2>2, <2>5 DEF IInv, Phase
<1>6. QED
  BY <1>4, <1>5

LEMMA SendRefusedHolds ==
  ASSUME IInv, SendRefused
  PROVE  IInv'
<1>1. Refused /\ Active /\ Typed /\ ~transfer.returned /\ twi_state["master"] # "READY"
      /\ TWINT["master"] = "MT_SLA_NACK" /\ bus = "held"
  BY MasterBusy DEF SendRefused, Interrupted
<1>2. /\ Reply("master", TRUE) /\ bus' = "STOP" /\ Masters /\ twi_error' = "MT_SLA_NACK"
      /\ UNCHANGED <<masterBuffer, left, TWDR>>
  BY <1>1 DEF SendRefused, Stop
<1>3. Typed' /\ Active'
      /\ TWINT'["master"] = "none"
      /\ TWINT'["slave"] = TWINT["slave"] /\ TWEA'["slave"] = TWEA["slave"]
  BY <1>1, <1>2, MastersKeep DEF Typed
<1>4. Refused'
  BY <1>1, <1>2, <1>3 DEF Refused, Masters, sketch, Writes
<1>5. (Seen = Told)'
  BY <1>1, <1>2, MastersKeep DEF Typed
<1>6. QED
  BY <1>3, <1>4, <1>5 DEF IInv, Phase

\* What is got is got, whether it waits in the unit or is stored.
LEMMA GetNextHolds ==
  ASSUME IInv, GetNext
  PROVE  IInv'
<1>1. Reading /\ Active /\ Typed /\ ~transfer.returned /\ twi_state["master"] # "READY"
      /\ bus = "held"
  BY MasterBusy DEF GetNext, Interrupted
<1>2. /\ TWINT["master"] \in {"MR_SLA_ACK", "MR_DATA_ACK"}
      /\ masterBuffer' = Got
      /\ Reply("master", Len(masterBuffer') < Len(left))
      /\ bus' = "DATA" /\ Masters /\ UNCHANGED <<left, twi_error, TWDR>>
  BY DEF GetNext, Interrupted, Got
<1>3. Got \in Seq(Nat)
  BY <1>1, TwoBoards DEF Got, Typed
<1>4. /\ Typed' /\ (Seen = Told)' /\ Active'
      /\ TWINT'["master"] = "none" /\ (TWEA'["master"] <=> Len(masterBuffer') < Len(left))
      /\ TWINT'["slave"] = TWINT["slave"] /\ TWEA'["slave"] = TWEA["slave"]
  <2> DEFINE more == Len(masterBuffer') < Len(left)
  <2>1. more \in BOOLEAN /\ Reply("master", more)
    BY <1>2
  <2>2. UNCHANGED <<left, TWDR>> /\ masterBuffer' \in Seq(Nat) /\ Masters
    BY <1>2, <1>3
  <2> HIDE DEF more
  <2>3. /\ Typed' /\ (Seen = Told)' /\ Active'
        /\ TWINT'["master"] = "none" /\ TWEA'["master"] = more
        /\ TWINT'["slave"] = TWINT["slave"] /\ TWEA'["slave"] = TWEA["slave"]
    BY <1>1, <2>1, <2>2, MastersKeep DEF Typed
  <2>4. QED
    BY <2>3 DEF more
<1>5. Got' = Got
  BY <1>2, <1>4 DEF Got
<1>6. transfer' = transfer /\ txBuffer' = txBuffer /\ txIndex' = txIndex /\ addressed' = addressed
  BY <1>2 DEF Masters, sketch
<1>7. Serving(Len(Got))' /\ AsServed(Got)'
  BY <1>1, <1>2, <1>4, <1>5, <1>6 DEF Reading, Serving, AsServed
<1>8. Fetching(Len(Got), Len(transfer.bytes))'
  BY <1>1, <1>2, <1>3, <1>4, <1>5, <1>6 DEF Reading, Fetching, Typed
<1>9. Reading'
  BY <1>1, <1>2, <1>4, <1>6, <1>7, <1>8 DEF Reading, Reads
<1>10. QED
  BY <1>4, <1>9 DEF IInv, Phase

LEMMA GetLastHolds ==
  ASSUME IInv, GetLast
  PROVE  IInv'
<1>1. /\ Active /\ Typed /\ ~transfer.returned /\ twi_state["master"] # "READY"
      /\ bus = "held"
  BY MasterBusy DEF GetLast, Interrupted
<1>2. /\ masterBuffer' = Got
      /\ Reply("master", TRUE)
      /\ bus' = "STOP" /\ Masters /\ UNCHANGED <<left, twi_error, TWDR>>
  BY DEF GetLast, Interrupted, Got, Stop
<1>3. Got \in Seq(Nat)
  BY <1>1, TwoBoards DEF Got, Typed
<1>4. /\ Typed' /\ (Seen = Told)' /\ Active'
      /\ TWINT'["master"] = "none" /\ TWEA'["master"]
      /\ TWINT'["slave"] = TWINT["slave"] /\ TWEA'["slave"] = TWEA["slave"]
  BY <1>1, <1>2, <1>3, MastersKeep DEF Typed
<1>5. transfer' = transfer /\ txBuffer' = txBuffer /\ txIndex' = txIndex /\ addressed' = addressed
  BY <1>2 DEF Masters, sketch
<1>6. CASE TWINT["master"] = "MR_DATA_NACK"
  <2>1. Reading
    BY <1>6, MasterBusy
  <2>2. Got' = Got
    BY <1>2, <1>4 DEF Got
  <2>3. Serving(Len(Got))' /\ AsServed(Got)'
    BY <1>2, <1>4, <1>5, <2>1, <2>2 DEF Reading, Serving, AsServed
  <2>4. Fetching(Len(Got), Len(transfer.bytes))'
    BY <1>2, <1>4, <1>5, <1>6, <2>1, <2>2 DEF Reading, Fetching
  <2>5. Reading'
    BY <1>2, <1>4, <1>5, <2>1, <2>3, <2>4 DEF Reading, Reads
  <2>6. QED
    BY <1>4, <2>5 DEF IInv, Phase
<1>7. CASE TWINT["master"] = "MR_SLA_NACK"
  <2>1. Refused
    BY <1>7, MasterBusy
  <2>2. ~Writes
    BY <1>7, <2>1 DEF Refused
  <2>3. Refused'
    BY <1>1, <1>2, <1>4, <1>5, <1>7, <2>1, <2>2 DEF Refused, Got, Writes
  <2>4. QED
    BY <1>4, <2>3 DEF IInv, Phase
<1>8. QED
  BY <1>6, <1>7 DEF GetLast, Interrupted

-----------------------------------------------------------------------------
(* The steps of the handler on the slave.                                  *)

\* An interrupt on the slave tells the phase.
LEMMA SlaveBusy ==
  ASSUME IInv
  PROVE  /\ TWINT["slave"] \in {"SR_SLA_ACK", "SR_DATA_ACK"} => Writing
         /\ TWINT["slave"] \in {"ST_SLA_ACK", "ST_DATA_ACK", "ST_DATA_NACK", "ST_LAST_DATA"}
              => Reading
         /\ TWINT["slave"] = "SR_STOP" => Idle \/ Opening
BY DEF IInv, Phase, Idle, Opening, Refused, Writing, Reading, Serving

\* Nothing changes for the master.
LEMMA SlavesKeep ==
  ASSUME Typed, Slaves, NEW ack \in BOOLEAN, Reply("slave", ack)
  PROVE  /\ TWINT' \in [Boards -> Statuses] /\ TWEA' \in [Boards -> BOOLEAN]
         /\ TWINT'["slave"] = "none" /\ TWEA'["slave"] = ack
         /\ TWINT'["master"] = TWINT["master"] /\ TWEA'["master"] = TWEA["master"]
         /\ UNCHANGED <<masterBuffer, left, twi_error, bus, addressed>>
BY TwoBoards, Replied DEF Slaves

LEMMA StateKept ==
  ASSUME Typed, NEW state \in {"READY", "SRX", "STX"}, State(state)
  PROVE  /\ twi_state' \in [Boards -> {"READY", "MTX", "MRX", "SRX", "STX"}]
         /\ twi_state'["master"] = twi_state["master"]
BY TwoBoards DEF Typed, State

\* A message begins: the slave forgets what it had.
LEMMA BeginReceiveHolds ==
  ASSUME IInv, BeginReceive
  PROVE  IInv'
<1>1. /\ Writing /\ Typed /\ Seen = Told /\ TWINT["slave"] = "SR_SLA_ACK" /\ ~calling
  BY SlaveBusy DEF BeginReceive, Interrupted, IInv
<1>2. /\ State("SRX") /\ rxBuffer' = <<>> /\ Reply("slave", TRUE) /\ Slaves
      /\ UNCHANGED <<txBuffer, txIndex, transfer, told, calling, unread, seen, TWDR>>
  BY DEF BeginReceive, sketch
<1>3. /\ TWINT' \in [Boards -> Statuses] /\ TWEA' \in [Boards -> BOOLEAN]
      /\ TWINT'["slave"] = "none" /\ TWEA'["slave"]
      /\ TWINT'["master"] = TWINT["master"]
      /\ UNCHANGED <<masterBuffer, left, twi_error, bus, addressed>>
      /\ twi_state' \in [Boards -> {"READY", "MTX", "MRX", "SRX", "STX"}]
      /\ twi_state'["master"] = twi_state["master"]
  BY <1>1, <1>2, SlavesKeep, StateKept
<1>4. Typed'
  BY <1>1, <1>2, <1>3 DEF Typed
<1>5. Heard' = Heard
  BY <1>1, <1>2, <1>3 DEF Heard
<1>6. Writing'
  BY <1>1, <1>2, <1>3, <1>5 DEF Writing, Sent, Active, Writes, Reads
<1>7. (Seen = Told)'
  BY <1>1, <1>2, <1>3 DEF Seen, Told, Writes
<1>8. QED
  BY <1>4, <1>6, <1>7 DEF IInv, Phase

\* There is room for a byte that comes, since the master sends no more than it buffers.
LEMMA ReceiveHolds ==
  ASSUME IInv, Receive
  PROVE  IInv'
<1>1. /\ Writing /\ Typed /\ Seen = Told /\ TWINT["slave"] = "SR_DATA_ACK" /\ ~calling
  BY SlaveBusy DEF Receive, Interrupted, IInv
<1>2. /\ Slaves
      /\ UNCHANGED <<twi_state, txBuffer, txIndex, transfer, told, calling, unread, seen, TWDR>>
  BY DEF Receive, sketch
<1>3. TWDR["slave"] \in Nat /\ TWDR["master"] \in Nat /\ left \in Seq(Nat) /\ rxBuffer \in Seq(Nat)
  BY <1>1, TwoBoards DEF Typed
<1>4. Len(rxBuffer) < BUFFER_LENGTH
  <2>1. Heard \in Seq(Nat) /\ Len(Heard) = Len(rxBuffer) + 1
    BY <1>1, <1>3, AppendProperties DEF Heard
  <2>2. Sent \in Seq(Nat) /\ Len(Sent) >= Len(Heard)
    <3>1. /\ Append(Heard, TWDR["master"]) \in Seq(Nat)
          /\ Len(Append(Heard, TWDR["master"])) = Len(Heard) + 1
      BY <1>3, <2>1, AppendProperties
    <3>2. QED
      BY <2>1, <3>1 DEF Sent
  <2>3. Len(transfer.bytes) = Len(Sent) + Len(left)
    BY <1>1, <1>3, <2>2, ConcatProperties DEF Writing
  <2>4. Len(transfer.bytes) <= BUFFER_LENGTH /\ BUFFER_LENGTH \in Nat
    BY <1>1, TwoWireAssumption DEF Writing, Active
  <2>5. Len(left) \in Nat /\ Len(Heard) \in Nat /\ Len(Sent) \in Nat /\ Len(rxBuffer) \in Nat
    BY <1>3, <2>1, <2>2
  <2>6. QED
    BY <2>1, <2>2, <2>3, <2>4, <2>5
<1>5. rxBuffer' = Append(rxBuffer, TWDR["slave"]) /\ Reply("slave", TRUE)
  BY <1>4 DEF Receive
<1>6. /\ TWINT' \in [Boards -> Statuses] /\ TWEA' \in [Boards -> BOOLEAN]
      /\ TWINT'["slave"] = "none" /\ TWEA'["slave"]
      /\ TWINT'["master"] = TWINT["master"]
      /\ UNCHANGED <<masterBuffer, left, twi_error, bus, addressed>>
  BY <1>1, <1>2, <1>5, SlavesKeep
<1>7. Typed'
  BY <1>1, <1>2, <1>3, <1>5, <1>6 DEF Typed
<1>8. Heard' = Heard
  BY <1>1, <1>2, <1>5, <1>6 DEF Heard
<1>9. Writing'
  BY <1>1, <1>2, <1>6, <1>8 DEF Writing, Sent, Active, Writes, Reads
<1>10. (Seen = Told)'
  BY <1>1, <1>2, <1>6 DEF Seen, Told, Writes
<1>11. QED
  BY <1>7, <1>9, <1>10 DEF IInv, Phase

\* The message is seen, since the sketch has read the one before it.
LEMMA EndReceiveHolds ==
  ASSUME Kept, IInv, EndReceive
  PROVE  IInv'
<1>1. /\ Typed /\ Seen = Told /\ TWINT["slave"] = "SR_STOP" /\ ~calling
      /\ Idle \/ (Opening /\ bus = "START" /\ Writes)
  BY SlaveBusy DEF EndReceive, Interrupted, IInv, Opening
<1>2. /\ State("READY") /\ Reply("slave", TRUE) /\ Slaves /\ calling'
      /\ UNCHANGED <<rxBuffer, txBuffer, txIndex, transfer, told, TWDR>>
  BY DEF EndReceive
<1>3. /\ TWINT' \in [Boards -> Statuses] /\ TWEA' \in [Boards -> BOOLEAN]
      /\ TWINT'["slave"] = "none" /\ TWEA'["slave"]
      /\ TWINT'["master"] = TWINT["master"]
      /\ UNCHANGED <<masterBuffer, left, twi_error, bus, addressed>>
      /\ twi_state' \in [Boards -> {"READY", "MTX", "MRX", "SRX", "STX"}]
      /\ twi_state'["master"] = twi_state["master"]
  BY <1>1, <1>2, SlavesKeep, StateKept
<1>4. seen' = Append(seen, rxBuffer) /\ unread' = 0
  <2>1. Min({0, Len(rxBuffer)}) = 0
    <3>1. Len(rxBuffer) \in Nat
      BY <1>1 DEF Typed
    <3>2. QED
      BY <3>1, SmallerOfTwo
  <2>2. QED
    BY <1>1, <2>1 DEF EndReceive, Typed, Kept
<1>5. Typed'
  <2>1. seen' \in Seq(Seq(Nat))
    BY <1>1, <1>4 DEF Typed
  <2>2. calling' \in BOOLEAN
    BY DEF EndReceive
  <2>3. QED
    BY <1>1, <1>2, <1>3, <1>4, <2>1, <2>2 DEF Typed
<1>6. (Seen = Told)'
  BY <1>1, <1>2, <1>3, <1>4 DEF Seen, Told, Writes
<1>7. Idle => Idle'
  BY <1>2, <1>3 DEF Idle, Outcome, Expected, Writes, Reads
<1>8. Opening /\ Writes => Opening'
  BY <1>2, <1>3 DEF Opening, Active, Writes, Reads, IsTransfer
<1>9. QED
  BY <1>1, <1>5, <1>6, <1>7, <1>8 DEF IInv, Phase

\* The interrupt that is cleared after the callback can only be the one for the
\* address of the next message, which has nothing to tell.
LEMMA EndCallbackHolds ==
  ASSUME IInv, EndCallback
  PROVE  IInv'
<1>1. Typed /\ Phase /\ Seen = Told /\ calling
  BY DEF EndCallback, IInv
<1>2. /\ State("READY") /\ rxBuffer' = <<>> /\ Reply("slave", TRUE) /\ Slaves /\ ~calling'
      /\ UNCHANGED <<txBuffer, txIndex, transfer, told, unread, seen, TWDR>>
  BY DEF EndCallback, Release
<1>3. /\ TWINT' \in [Boards -> Statuses] /\ TWEA' \in [Boards -> BOOLEAN]
      /\ TWINT'["slave"] = "none" /\ TWEA'["slave"]
      /\ TWINT'["master"] = TWINT["master"]
      /\ UNCHANGED <<masterBuffer, left, twi_error, bus, addressed>>
      /\ twi_state' \in [Boards -> {"READY", "MTX", "MRX", "SRX", "STX"}]
      /\ twi_state'["master"] = twi_state["master"]
  BY <1>1, <1>2, SlavesKeep, StateKept
<1>4. Typed'
  <2>1. calling' \in BOOLEAN
    BY DEF EndCallback
  <2>2. rxBuffer' \in Seq(Nat)
    BY <1>2
  <2>3. QED
    BY <1>1, <1>2, <1>3, <2>1, <2>2 DEF Typed
<1>5. TWINT["slave"] # "SR_STOP" /\ ~Reading
  BY <1>1 DEF Phase, Idle, Opening, Refused, Writing, Reading, Active
<1>6. (Seen = Told)'
  BY <1>1, <1>2, <1>3, <1>5 DEF Seen, Told, Writes
<1>7. Active => Active'
  BY <1>2, <1>3 DEF Active, Reads
<1>8. CASE Idle
  BY <1>2, <1>3, <1>4, <1>6, <1>8 DEF Idle, Outcome, Expected, Writes, Reads, IInv, Phase
<1>9. CASE Opening
  <2>1. Opening'
    BY <1>2, <1>3, <1>7, <1>9 DEF Opening, Writes, Reads
  <2>2. QED
    BY <1>4, <1>6, <2>1 DEF IInv, Phase
<1>10. CASE Refused
  <2>1. Refused'
    BY <1>2, <1>3, <1>7, <1>10 DEF Refused, Writes
  <2>2. QED
    BY <1>4, <1>6, <2>1 DEF IInv, Phase
<1>11. CASE Writing
  <2>1. Heard' = Heard
    BY <1>1, <1>2, <1>3, <1>11 DEF Heard, Writing
  <2>2. Writing'
    BY <1>2, <1>3, <1>7, <1>11, <2>1 DEF Writing, Sent, Writes
  <2>3. QED
    BY <1>4, <1>6, <2>2 DEF IInv, Phase
<1>12. QED
  BY <1>1, <1>5, <1>8, <1>9, <1>10, <1>11 DEF Phase

LEMMA TransmitFacts ==
  ASSUME Typed, Slaves, NEW buffer \in Seq(Nat), NEW i \in Nat, Transmit(buffer, i)
  PROVE  /\ TWDR' \in [Boards -> Nat] /\ TWDR'["master"] = TWDR["master"]
         /\ i < Len(buffer) => TWDR'["slave"] = buffer[i + 1]
         /\ txIndex' = i + 1
         /\ TWINT' \in [Boards -> Statuses] /\ TWEA' \in [Boards -> BOOLEAN]
         /\ TWINT'["slave"] = "none" /\ (TWEA'["slave"] <=> i + 1 < Len(buffer))
         /\ TWINT'["master"] = TWINT["master"] /\ TWEA'["master"] = TWEA["master"]
         /\ UNCHANGED <<masterBuffer, left, twi_error, bus, addressed>>
<1> DEFINE byte == IF i < Len(buffer) THEN buffer[i + 1] ELSE ONES
           more == i + 1 < Len(buffer)
<1>1. byte \in Nat
  BY DEF ONES
<1>2. more \in BOOLEAN /\ Reply("slave", more) /\ TWDR' = [TWDR EXCEPT !["slave"] = byte]
  BY DEF Transmit
<1>3. /\ TWDR' \in [Boards -> Nat] /\ TWDR'["master"] = TWDR["master"]
      /\ TWDR'["slave"] = byte
  <2> HIDE DEF byte
  <2>1. QED
    BY <1>1, <1>2, TwoBoards DEF Typed
<1>4. /\ TWINT' \in [Boards -> Statuses] /\ TWEA' \in [Boards -> BOOLEAN]
      /\ TWINT'["slave"] = "none" /\ TWEA'["slave"] = more
      /\ TWINT'["master"] = TWINT["master"] /\ TWEA'["master"] = TWEA["master"]
      /\ UNCHANGED <<masterBuffer, left, twi_error, bus, addressed>>
  <2> HIDE DEF more
  <2>1. QED
    BY <1>2, SlavesKeep
<1>5. QED
  BY <1>3, <1>4 DEF Transmit

\* The sketch answers, and the first byte is there to be fetched.
LEMMA BeginTransmitHolds ==
  ASSUME IInv, NEW r \in Replies, BeginTransmit(r)
  PROVE  IInv'
<1> DEFINE answer == Answered(r)
<1>1. /\ Reading /\ Typed /\ Seen = Told /\ TWINT["slave"] = "ST_SLA_ACK"
      /\ IsTransfer(transfer) /\ ~transfer.returned
  BY SlaveBusy DEF BeginTransmit, Interrupted, IInv, Reading, Active
<1>2. answer \in Seq(Nat) /\ Len(answer) > 0
  BY AnsweredSomething
<1>3. /\ State("STX") /\ Slaves /\ txBuffer' = answer /\ Transmit(answer, 0)
      /\ transfer' = [transfer EXCEPT !.served = answer]
      /\ UNCHANGED <<rxBuffer, told, calling, unread, seen>>
  BY DEF BeginTransmit
<1> HIDE DEF answer
<1>4. /\ TWDR' \in [Boards -> Nat] /\ TWDR'["master"] = TWDR["master"]
      /\ TWDR'["slave"] = answer[1] /\ txIndex' = 1
      /\ TWINT' \in [Boards -> Statuses] /\ TWEA' \in [Boards -> BOOLEAN]
      /\ TWINT'["slave"] = "none" /\ (TWEA'["slave"] <=> 1 < Len(answer))
      /\ TWINT'["master"] = TWINT["master"] /\ TWEA'["master"] = TWEA["master"]
      /\ UNCHANGED <<masterBuffer, left, twi_error, bus, addressed>>
  BY <1>1, <1>2, <1>3, TransmitFacts
<1>5. /\ IsTransfer(transfer') /\ ~transfer'.returned /\ transfer'.kind = transfer.kind
      /\ transfer'.bytes = transfer.bytes /\ transfer'.present = transfer.present
      /\ transfer'.served = answer
  BY <1>1, <1>2, <1>3 DEF IsTransfer
<1>6. /\ twi_state' \in [Boards -> {"READY", "MTX", "MRX", "SRX", "STX"}]
      /\ twi_state'["master"] = twi_state["master"]
  BY <1>1, <1>3, StateKept
<1>7. Typed'
  BY <1>1, <1>2, <1>3, <1>4, <1>5, <1>6 DEF Typed
<1>8. (Seen = Told)'
  BY <1>1, <1>3, <1>4, <1>5, <1>6 DEF Seen, Told, Writes
<1>9. Got' = Got /\ Len(Got) = 0 /\ addressed = "read"
  BY <1>1, <1>4 DEF Got, Reading, Serving
<1>10. Reading'
  <2>1. Active' /\ Reads'
    BY <1>1, <1>3, <1>5, <1>6 DEF Reading, Active, Reads
  <2>2. AsServed(Got)'
    BY <1>9 DEF AsServed
  <2>3. Serving(Len(Got))'
    BY <1>2, <1>3, <1>4, <1>5, <1>9 DEF Serving
  <2>4. Fetching(Len(Got), Len(transfer.bytes))'
    BY <1>1, <1>4, <1>5, <1>9 DEF Reading, Fetching
  <2>5. QED
    BY <1>1, <1>4, <1>5, <2>1, <2>2, <2>3, <2>4 DEF Reading
<1>11. QED
  BY <1>7, <1>8, <1>10 DEF IInv, Phase

LEMMA TransmitNextHolds ==
  ASSUME IInv, TransmitNext
  PROVE  IInv'
<1>1. /\ Reading /\ Typed /\ Seen = Told /\ TWINT["slave"] = "ST_DATA_ACK"
  BY SlaveBusy DEF TransmitNext, Interrupted, IInv
<1>2. /\ Transmit(txBuffer, txIndex) /\ Slaves
      /\ UNCHANGED <<twi_state, rxBuffer, txBuffer, transfer, told, calling, unread, seen>>
  BY DEF TransmitNext, sketch
<1>3. /\ addressed = "read" /\ txBuffer = transfer.served /\ txIndex = Len(Got)
      /\ Len(Got) < Len(transfer.served)
  BY <1>1 DEF Reading, Serving
<1>4. txBuffer \in Seq(Nat) /\ txIndex \in Nat
  BY <1>1 DEF Typed
<1>5. /\ TWDR' \in [Boards -> Nat] /\ TWDR'["master"] = TWDR["master"]
      /\ TWDR'["slave"] = txBuffer[txIndex + 1] /\ txIndex' = txIndex + 1
      /\ TWINT' \in [Boards -> Statuses] /\ TWEA' \in [Boards -> BOOLEAN]
      /\ TWINT'["slave"] = "none" /\ (TWEA'["slave"] <=> txIndex + 1 < Len(txBuffer))
      /\ TWINT'["master"] = TWINT["master"] /\ TWEA'["master"] = TWEA["master"]
      /\ UNCHANGED <<masterBuffer, left, twi_error, bus, addressed>>
  BY <1>1, <1>2, <1>3, <1>4, TransmitFacts
<1>6. Typed'
  BY <1>1, <1>2, <1>4, <1>5 DEF Typed
<1>7. (Seen = Told)'
  BY <1>1, <1>2, <1>5 DEF Seen, Told, Writes
<1>8. Got' = Got
  BY <1>5 DEF Got
<1>9. Reading'
  <2>1. Active' /\ Reads'
    BY <1>1, <1>2 DEF Reading, Active, Reads
  <2>2. AsServed(Got)'
    BY <1>1, <1>2, <1>8 DEF AsServed, Reading
  <2>3. Serving(Len(Got))'
    BY <1>2, <1>3, <1>5, <1>8 DEF Serving
  <2>4. Fetching(Len(Got), Len(transfer.bytes))'
    BY <1>1, <1>2, <1>5, <1>8 DEF Reading, Fetching
  <2>5. QED
    BY <1>1, <1>2, <1>5, <2>1, <2>2, <2>3, <2>4 DEF Reading
<1>10. QED
  BY <1>6, <1>7, <1>9 DEF IInv, Phase

LEMMA EndTransmitHolds ==
  ASSUME IInv, EndTransmit
  PROVE  IInv'
<1>1. /\ Reading /\ Typed /\ Seen = Told
      /\ TWINT["slave"] \in {"ST_DATA_NACK", "ST_LAST_DATA"}
  BY SlaveBusy DEF EndTransmit, Interrupted, IInv
<1>2. /\ State("READY") /\ Reply("slave", TRUE) /\ Slaves
      /\ UNCHANGED <<rxBuffer, txBuffer, txIndex, transfer, told, calling, unread, seen, TWDR>>
  BY DEF EndTransmit, Listen, sketch
<1>3. /\ TWINT' \in [Boards -> Statuses] /\ TWEA' \in [Boards -> BOOLEAN]
      /\ TWINT'["slave"] = "none" /\ TWEA'["slave"]
      /\ TWINT'["master"] = TWINT["master"] /\ TWEA'["master"] = TWEA["master"]
      /\ UNCHANGED <<masterBuffer, left, twi_error, bus, addressed>>
      /\ twi_state' \in [Boards -> {"READY", "MTX", "MRX", "SRX", "STX"}]
      /\ twi_state'["master"] = twi_state["master"]
  BY <1>1, <1>2, SlavesKeep, StateKept
<1>4. Typed'
  BY <1>1, <1>2, <1>3 DEF Typed
<1>5. (Seen = Told)'
  BY <1>1, <1>2, <1>3 DEF Seen, Told, Writes
<1>6. Got' = Got
  BY <1>2, <1>3 DEF Got
<1>7. Reading'
  <2>1. Active' /\ Reads'
    BY <1>1, <1>2, <1>3 DEF Reading, Active, Reads
  <2>2. AsServed(Got)'
    BY <1>1, <1>2, <1>6 DEF AsServed, Reading
  <2>3. Serving(Len(Got))'
    BY <1>1, <1>2, <1>3, <1>6 DEF Reading, Serving
  <2>4. Fetching(Len(Got), Len(transfer.bytes))'
    BY <1>1, <1>2, <1>3, <1>6 DEF Reading, Fetching
  <2>5. QED
    BY <1>1, <1>2, <1>3, <2>1, <2>2, <2>3, <2>4 DEF Reading
<1>8. QED
  BY <1>4, <1>5, <1>7 DEF IInv, Phase

-----------------------------------------------------------------------------
(* The steps of the bus.                                                   *)

LEMMA UnitsKeep ==
  ASSUME Typed, Units
  PROVE  UNCHANGED <<masterBuffer, left, twi_error, rxBuffer, txBuffer, txIndex, told, calling,
                     unread, seen>>
BY DEF Units

LEMMA StartedHolds ==
  ASSUME IInv, Started
  PROVE  IInv'
<1>1. /\ Typed /\ Seen = Told /\ bus = "START"
      /\ TWINT["master"] = "none" /\ TWINT["slave"] = "none"
  BY AllDone DEF Started, IInv
<1>2. Opening
  BY <1>1 DEF IInv, Phase, Idle, Refused, Writing, Reading, Fetching
<1>3. /\ TWINT' \in [Boards -> Statuses] /\ TWINT'["master"] = "START"
      /\ TWINT'["slave"] = "none"
  BY BothTold DEF Started, Statuses
<1>4. /\ bus' = "held"
      /\ UNCHANGED <<masterBuffer, left, twi_error, rxBuffer, txBuffer, txIndex, told, calling,
                     unread, seen, twi_state, transfer, TWEA, TWDR, addressed>>
  BY <1>1, UnitsKeep DEF Started
<1>5. Typed'
  BY <1>1, <1>3, <1>4 DEF Typed
<1>6. (Seen = Told)'
  BY <1>1, <1>3, <1>4 DEF Seen, Told, Writes
<1>7. Opening'
  BY <1>2, <1>3, <1>4 DEF Opening, Active, Writes, Reads
<1>8. QED
  BY <1>5, <1>6, <1>7 DEF IInv, Phase

\* Either the slave is there, and acknowledges, or it is off.
LEMMA AddressedHolds ==
  ASSUME IInv, NEW present \in BOOLEAN, Addressed(present)
  PROVE  IInv'
<1>1. /\ Typed /\ Seen = Told /\ bus = "ADDRESS"
      /\ TWINT["master"] = "none" /\ TWINT["slave"] = "none"
  BY AllDone DEF Addressed, IInv
<1>2. Opening
  BY <1>1 DEF IInv, Phase, Idle, Refused, Writing, Reading, Fetching
<1>3. /\ TWEA["slave"] /\ masterBuffer = <<>> /\ twi_error = "none" /\ transfer.served = <<>>
      /\ Active /\ IsTransfer(transfer) /\ ~transfer.returned
      /\ twi_state["master"] # "READY"
      /\ Writes => left = transfer.bytes
      /\ Reads => Len(transfer.bytes) = Len(left) + 1
      /\ Reads => ~calling
      /\ Writes \/ Reads
  BY <1>2 DEF Opening, Active, Writes, Reads, IsTransfer
<1>4. /\ bus' = "held" /\ transfer' = [transfer EXCEPT !.present = present]
      /\ UNCHANGED <<masterBuffer, left, twi_error, rxBuffer, txBuffer, txIndex, told, calling,
                     unread, seen, twi_state, TWEA, TWDR>>
  BY <1>1, UnitsKeep DEF Addressed
<1>5. /\ IsTransfer(transfer') /\ ~transfer'.returned /\ transfer'.kind = transfer.kind
      /\ transfer'.bytes = transfer.bytes /\ transfer'.present = present
      /\ transfer'.served = <<>>
  BY <1>3, <1>4 DEF IsTransfer
<1>6. Active'
  BY <1>3, <1>4, <1>5 DEF Active, Reads
<1>7. ASSUME TWINT' \in [Boards -> Statuses], TWINT'["slave"] # "SR_STOP"
      PROVE  Typed' /\ (Seen = Told)'
  <2>1. Typed'
    BY <1>1, <1>4, <1>5, <1>7 DEF Typed
  <2>2. (Seen = Told)'
    BY <1>1, <1>3, <1>4, <1>5, <1>7 DEF Seen, Told
  <2>3. QED
    BY <2>1, <2>2
<1>8. CASE ~present
  <2>1. /\ Interrupts(IF Writes THEN "MT_SLA_NACK" ELSE "MR_SLA_NACK", "none")
        /\ addressed' = "no"
    BY <1>8 DEF Addressed, Writes
  <2>2. (IF Writes THEN "MT_SLA_NACK" ELSE "MR_SLA_NACK") \in Statuses
    BY DEF Statuses
  <2>3. /\ TWINT' \in [Boards -> Statuses]
        /\ TWINT'["master"] = IF Writes THEN "MT_SLA_NACK" ELSE "MR_SLA_NACK"
        /\ TWINT'["slave"] = "none"
    BY <2>1, <2>2, BothTold DEF Statuses
  <2>4. Refused'
    BY <1>3, <1>4, <1>5, <1>6, <1>8, <2>1, <2>3 DEF Refused, Writes
  <2>5. QED
    BY <1>7, <2>3, <2>4 DEF IInv, Phase
<1>9. CASE present /\ Writes
  <2>1. Interrupts("MT_SLA_ACK", "SR_SLA_ACK") /\ addressed' = "write"
    BY <1>3, <1>9 DEF Addressed, Writes
  <2>2. /\ TWINT' \in [Boards -> Statuses] /\ TWINT'["master"] = "MT_SLA_ACK"
        /\ TWINT'["slave"] = "SR_SLA_ACK"
    BY <2>1, BothTold DEF Statuses
  <2>3. Sent' = <<>>
    BY <1>4, <2>2 DEF Sent, Heard
  <2>4. transfer'.bytes = Sent' \o left'
    BY <1>1, <1>3, <1>4, <1>5, <1>9, <2>3, ConcatEmptySeq DEF Typed
  <2>5. Writing'
    BY <1>3, <1>4, <1>5, <1>6, <1>9, <2>1, <2>2, <2>4 DEF Writing, Writes
  <2>6. QED
    BY <1>7, <2>2, <2>5 DEF IInv, Phase
<1>10. CASE present /\ Reads
  <2>1. Interrupts("MR_SLA_ACK", "ST_SLA_ACK") /\ addressed' = "read"
    BY <1>3, <1>10 DEF Addressed, Reads
  <2>2. /\ TWINT' \in [Boards -> Statuses] /\ TWINT'["master"] = "MR_SLA_ACK"
        /\ TWINT'["slave"] = "ST_SLA_ACK"
    BY <2>1, BothTold DEF Statuses
  <2>3. Got' = <<>>
    BY <1>3, <1>4, <2>2 DEF Got
  <2>4. AsServed(Got)' /\ Serving(Len(Got))' /\ Fetching(Len(Got), Len(transfer.bytes))'
    BY <1>4, <2>1, <2>2, <2>3 DEF AsServed, Serving, Fetching
  <2>5. Reading'
    BY <1>3, <1>4, <1>5, <1>6, <1>10, <2>4 DEF Reading, Reads
  <2>6. QED
    BY <1>7, <2>2, <2>5 DEF IInv, Phase
<1>11. QED
  BY <1>3, <1>8, <1>9, <1>10

LEMMA WrittenHolds ==
  ASSUME IInv, Written
  PROVE  IInv'
<1>1. /\ Typed /\ Seen = Told /\ bus = "DATA" /\ Writes
      /\ TWINT["master"] = "none" /\ TWINT["slave"] = "none"
  BY AllDone DEF Written, IInv, Writes
<1>2. Writing
  BY <1>1 DEF IInv, Phase, Idle, Opening, Refused, Reading, Reads, Writes
<1>3. /\ addressed = "write" /\ TWEA["slave"] /\ ~calling /\ Active
  BY <1>1, <1>2 DEF Writing
<1>4. /\ Interrupts("MT_DATA_ACK", "SR_DATA_ACK") /\ addressed' = addressed
      /\ bus' = "held" /\ TWDR' = [TWDR EXCEPT !["slave"] = TWDR["master"]]
      /\ UNCHANGED <<masterBuffer, left, twi_error, rxBuffer, txBuffer, txIndex, told, calling,
                     unread, seen, twi_state, transfer, TWEA>>
  BY <1>1, <1>3, UnitsKeep DEF Written
<1>5. /\ TWINT' \in [Boards -> Statuses] /\ TWINT'["master"] = "MT_DATA_ACK"
      /\ TWINT'["slave"] = "SR_DATA_ACK"
  BY <1>4, BothTold DEF Statuses
<1>6. /\ TWDR' \in [Boards -> Nat] /\ TWDR'["slave"] = TWDR["master"]
  BY <1>1, <1>4, TwoBoards DEF Typed
<1>7. Typed'
  BY <1>1, <1>4, <1>5, <1>6 DEF Typed
<1>8. (Seen = Told)'
  BY <1>1, <1>4, <1>5 DEF Seen, Told, Writes
<1>9. Sent' = Sent
  BY <1>1, <1>4, <1>5, <1>6 DEF Sent, Heard
<1>10. Writing'
  BY <1>2, <1>3, <1>4, <1>5, <1>9 DEF Writing, Active, Writes, Reads
<1>11. QED
  BY <1>7, <1>8, <1>10 DEF IInv, Phase

\* A byte is fetched: the slave's, while it is addressed, and then ones.
LEMMA FetchedHolds ==
  ASSUME IInv, Fetched
  PROVE  IInv'
<1> DEFINE ack == TWEA["master"]
           more == ack /\ TWEA["slave"]
           byte == IF addressed = "read" THEN TWDR["slave"] ELSE ONES
           forMaster == IF ack THEN "MR_DATA_ACK" ELSE "MR_DATA_NACK"
           forSlave == IF addressed = "no" THEN "none"
                       ELSE IF more THEN "ST_DATA_ACK"
                       ELSE IF ack THEN "ST_LAST_DATA" ELSE "ST_DATA_NACK"
           k == Len(masterBuffer)
           n == Len(transfer.bytes)
<1>1. /\ Typed /\ Seen = Told /\ bus = "DATA" /\ Reads
      /\ TWINT["master"] = "none" /\ TWINT["slave"] = "none"
  BY AllDone DEF Fetched, IInv, Reads
<1>2. Reading
  BY <1>1 DEF IInv, Phase, Idle, Opening, Refused, Writing, Reads, Writes
<1>3. Got = masterBuffer /\ masterBuffer \in Seq(Nat) /\ k \in Nat
  BY <1>1 DEF Got, Typed
<1>4. /\ Active /\ AsServed(masterBuffer) /\ k < n /\ (ack <=> k + 1 < n)
      /\ transfer.present /\ n = Len(left) + 1 /\ n \in Nat /\ IsTransfer(transfer)
      /\ transfer.served \in Seq(Nat)
  <2>1. Fetching(k, n) /\ IsTransfer(transfer)
    BY <1>2, <1>3 DEF Reading, Active
  <2>2. k < n /\ (ack <=> k + 1 < n)
    BY <1>1, <2>1 DEF Fetching
  <2>3. n \in Nat /\ transfer.served \in Seq(Nat)
    BY <2>1 DEF IsTransfer
  <2>4. QED
    BY <1>2, <1>3, <2>1, <2>2, <2>3 DEF Reading
<1>5. \/ /\ addressed = "read" /\ txBuffer = transfer.served /\ txIndex = k + 1
         /\ k < Len(transfer.served) /\ TWDR["slave"] = transfer.served[k + 1]
         /\ (TWEA["slave"] <=> k + 1 < Len(transfer.served))
      \/ addressed = "no" /\ TWEA["slave"] /\ k >= Len(transfer.served)
  <2>1. Serving(k)
    BY <1>2, <1>3 DEF Reading
  <2>2. QED
    BY <1>1, <1>4, <2>1 DEF Serving
<1>6. /\ Interrupts(forMaster, forSlave)
      /\ addressed' = (IF more THEN addressed ELSE "no")
      /\ TWDR' = [TWDR EXCEPT !["master"] = byte]
      /\ bus' = "held"
      /\ UNCHANGED <<masterBuffer, left, twi_error, rxBuffer, txBuffer, txIndex, told, calling,
                     unread, seen, twi_state, transfer, TWEA>>
  BY <1>1, UnitsKeep DEF Fetched
<1>7. byte \in Nat /\ forMaster \in Statuses /\ forSlave \in Statuses
  BY <1>1, TwoBoards DEF Typed, ONES, Statuses
<1>8. /\ TWDR' \in [Boards -> Nat] /\ TWDR'["master"] = byte /\ TWDR'["slave"] = TWDR["slave"]
      /\ TWINT' \in [Boards -> Statuses] /\ TWINT'["master"] = forMaster
      /\ TWINT'["slave"] = forSlave
  <2> HIDE DEF byte, forMaster, forSlave
  <2>1. TWDR' \in [Boards -> Nat] /\ TWDR'["master"] = byte /\ TWDR'["slave"] = TWDR["slave"]
    BY <1>1, <1>6, <1>7, TwoBoards DEF Typed
  <2>2. QED
    BY <1>6, <1>7, <2>1, BothTold
<1>9. Typed'
  BY <1>1, <1>6, <1>8 DEF Typed
<1>10. (Seen = Told)'
  <2>1. TWINT'["slave"] # "SR_STOP"
    BY <1>8
  <2>2. QED
    BY <1>1, <1>6, <2>1 DEF Seen, Told, Writes
<1>11. /\ Got' = Append(masterBuffer, byte) /\ Got' \in Seq(Nat) /\ Len(Got') = k + 1
       /\ Got'[k + 1] = byte /\ \A i \in 1 .. k : Got'[i] = masterBuffer[i]
  <2>1. Got' = Append(masterBuffer, byte)
    BY <1>6, <1>8 DEF Got
  <2>2. QED
    BY <1>3, <1>7, <2>1, AppendProperties
<1>12. AsServed(Got)'
  <2>1. byte = IF k + 1 <= Len(transfer.served) THEN transfer.served[k + 1] ELSE ONES
    BY <1>3, <1>4, <1>5
  <2> HIDE DEF byte, k
  <2>2. SUFFICES ASSUME NEW i \in 1 .. Len(Got')
                 PROVE  Got'[i] = IF i <= Len(transfer.served) THEN transfer.served[i] ELSE ONES
    BY <1>6 DEF AsServed
  <2>3. CASE i = k + 1
    BY <1>11, <2>1, <2>3
  <2>4. CASE i \in 1 .. k
    BY <1>4, <1>11, <2>4 DEF AsServed, k
  <2>5. QED
    BY <1>3, <1>11, <2>3, <2>4
<1>13. Serving(Len(Got))'
  <2>1. CASE more /\ addressed = "read"
    BY <1>4, <1>5, <1>6, <1>8, <1>11, <2>1 DEF Serving
  <2>2. CASE addressed = "no"
    BY <1>3, <1>4, <1>5, <1>6, <1>8, <1>11, <2>2 DEF Serving
  <2>3. CASE ~more /\ addressed = "read"
    <3>1. TWINT'["slave"] \in {"ST_DATA_NACK", "ST_LAST_DATA"} /\ addressed' = "no"
      BY <1>6, <1>8, <2>3
    <3>2. k + 1 >= Len(transfer.served) \/ k + 1 = n
      BY <1>3, <1>4, <1>5, <2>3
    <3>3. QED
      BY <1>6, <1>11, <3>1, <3>2 DEF Serving
  <2>4. QED
    BY <1>5, <2>1, <2>2, <2>3
<1>14. Fetching(Len(Got), Len(transfer.bytes))'
  <2>1. CASE ack
    BY <1>4, <1>6, <1>8, <1>11, <2>1 DEF Fetching
  <2>2. CASE ~ack
    BY <1>3, <1>4, <1>6, <1>8, <1>11, <2>2 DEF Fetching
  <2>3. QED
    BY <2>1, <2>2
<1>15. Reading'
  BY <1>1, <1>4, <1>6, <1>12, <1>13, <1>14 DEF Reading, Active, Reads
<1>16. QED
  BY <1>9, <1>10, <1>15 DEF IInv, Phase

\* The transfer is over: what the slave has heard is the message.
LEMMA StoppedHolds ==
  ASSUME IInv, Stopped
  PROVE  IInv'
<1> USE TwoBoards
<1>1. /\ Typed /\ Seen = Told /\ bus = "STOP"
      /\ TWINT["master"] = "none" /\ TWINT["slave"] = "none"
  BY AllDone DEF Stopped, IInv
<1>2. Refused \/ Writing \/ Reading
  BY <1>1 DEF IInv, Phase, Idle, Opening
<1>3. /\ Active /\ IsTransfer(transfer) /\ ~transfer.returned
      /\ twi_state["master"] # "READY" /\ Told = told /\ Seen = seen
      /\ Writes <=> ~Reads
  BY <1>1, <1>2 DEF Refused, Writing, Reading, Active, Told, Seen, IsTransfer, Writes, Reads
<1>4. /\ Interrupts("none", IF addressed = "write" THEN "SR_STOP" ELSE "none")
      /\ addressed' = "no" /\ bus' = "free"
      /\ twi_state' = [twi_state EXCEPT !["master"] = "READY"]
      /\ UNCHANGED <<masterBuffer, left, twi_error, rxBuffer, txBuffer, txIndex, told, calling,
                     unread, seen, transfer, TWEA, TWDR>>
  BY <1>1, UnitsKeep DEF Stopped
<1>5. (IF addressed = "write" THEN "SR_STOP" ELSE "none") \in Statuses /\ "none" \in Statuses
  BY DEF Statuses
<1>6. /\ TWINT' \in [Boards -> Statuses] /\ TWINT'["master"] = "none"
      /\ TWINT'["slave"] = IF addressed = "write" THEN "SR_STOP" ELSE "none"
  BY <1>4, <1>5, BothTold
<1>7. /\ twi_state' \in [Boards -> {"READY", "MTX", "MRX", "SRX", "STX"}]
      /\ twi_state'["master"] = "READY"
  BY <1>1, <1>4 DEF Typed
<1>8. Typed'
  BY <1>1, <1>4, <1>6, <1>7 DEF Typed
<1>9. CASE Refused
  <2>1. Outcome'
    BY <1>1, <1>3, <1>4, <1>9 DEF Outcome, Refused, Expected, Writes, Reads
  <2>2. Idle'
    BY <1>4, <1>6, <1>7, <1>9, <2>1 DEF Idle, Refused
  <2>3. (Seen = Told)'
    BY <1>1, <1>3, <1>4, <1>6, <1>7, <1>9 DEF Refused, Seen, Told, Writes
  <2>4. QED
    BY <1>8, <2>2, <2>3 DEF IInv, Phase
<1>10. CASE Writing
  <2>1. transfer.bytes = rxBuffer
    BY <1>1, <1>10, ConcatEmptySeq DEF Writing, Sent, Heard, Typed
  <2>2. Outcome'
    BY <1>3, <1>4, <1>10 DEF Outcome, Writing, Writes, Reads
  <2>3. Idle'
    BY <1>1, <1>4, <1>6, <1>7, <1>10, <2>2 DEF Idle, Writing
  <2>4. (Seen = Told)'
    BY <1>1, <1>3, <1>4, <1>6, <1>7, <1>10, <2>1 DEF Writing, Seen, Told, Writes
  <2>5. QED
    BY <1>8, <2>3, <2>4 DEF IInv, Phase
<1>11. CASE Reading
  <2>1. /\ Got = masterBuffer /\ Len(masterBuffer) = Len(transfer.bytes)
        /\ AsServed(masterBuffer) /\ addressed = "no"
        /\ transfer.present /\ ~Writes /\ Reads
    BY <1>1, <1>3, <1>11 DEF Reading, Fetching, Got
  <2>2. TWEA["slave"]
    <3>1. Serving(Len(Got))
      BY <1>11 DEF Reading
    <3>2. QED
      BY <1>1, <2>1, <3>1, Zenon DEF Serving
  <2>3. masterBuffer = Expected
    <3>1. masterBuffer \in Seq(Nat) /\ transfer.bytes \in Seq(Nat)
      BY <1>1, <1>3 DEF Typed, IsTransfer
    <3>2. DOMAIN transfer.bytes = 1 .. Len(masterBuffer)
      BY <2>1, <3>1
    <3>3. masterBuffer = [i \in 1 .. Len(masterBuffer) |-> masterBuffer[i]]
      BY <3>1
    <3>4. [i \in 1 .. Len(masterBuffer) |-> masterBuffer[i]] =
            [i \in 1 .. Len(masterBuffer) |->
              IF i <= Len(transfer.served) THEN transfer.served[i] ELSE ONES]
      BY <2>1 DEF AsServed
    <3>5. Expected = [i \in 1 .. Len(masterBuffer) |->
                       IF i <= Len(transfer.served) THEN transfer.served[i] ELSE ONES]
      BY <2>1, <3>2, Zenon DEF Expected
    <3>6. QED
      BY <3>3, <3>4, <3>5, Zenon
  <2>4. Outcome'
    BY <1>3, <1>4, <2>1, <2>3 DEF Outcome, Expected, Writes, Reads
  <2>5. Idle'
    BY <1>1, <1>4, <1>6, <1>7, <2>1, <2>2, <2>4 DEF Idle
  <2>6. (Seen = Told)'
    BY <1>1, <1>3, <1>4, <1>6, <1>7, <2>1 DEF Seen, Told, Writes
  <2>7. QED
    BY <1>8, <2>5, <2>6 DEF IInv, Phase
<1>12. QED
  BY <1>2, <1>9, <1>10, <1>11

-----------------------------------------------------------------------------
(* The invariant, and what follows.                                        *)

LEMMA StutterHolds ==
  ASSUME IInv, UNCHANGED vars
  PROVE  IInv'
<1>1. UNCHANGED <<twi_state, masterBuffer, left, twi_error, rxBuffer, txBuffer, txIndex,
                  transfer, told, calling, unread, seen, TWINT, TWEA, TWDR, bus, addressed>>
  BY DEF vars, driver, sketch, unit
<1>2. Typed'
  BY <1>1 DEF IInv, Typed
<1>3. (Seen = Told)'
  BY <1>1 DEF IInv, Seen, Told, Writes
<1>4. (Active' <=> Active) /\ Got' = Got /\ Heard' = Heard /\ Sent' = Sent /\ Expected' = Expected
      /\ (Writes' <=> Writes) /\ (Reads' <=> Reads)
  BY <1>1 DEF Active, Got, Sent, Heard, Expected, Writes, Reads
<1>5. Idle => Idle'
  BY <1>1, <1>4 DEF Idle, Outcome
<1>6. Opening => Opening'
  BY <1>1, <1>4 DEF Opening
<1>7. Refused => Refused'
  BY <1>1, <1>4 DEF Refused
<1>8. Writing => Writing'
  BY <1>1, <1>4 DEF Writing
<1>9. Reading => Reading'
  <2>1. AsServed(Got) => AsServed(Got)'
    BY <1>1, <1>4 DEF AsServed
  <2>2. Serving(Len(Got)) => Serving(Len(Got))'
    BY <1>1, <1>4 DEF Serving
  <2>3. Fetching(Len(Got), Len(transfer.bytes)) => Fetching(Len(Got), Len(transfer.bytes))'
    BY <1>1, <1>4 DEF Fetching
  <2>4. QED
    BY <1>1, <1>4, <2>1, <2>2, <2>3 DEF Reading
<1>10. QED
  BY <1>2, <1>3, <1>5, <1>6, <1>7, <1>8, <1>9 DEF IInv, Phase

LEMMA NextHolds ==
  ASSUME Kept, IInv, [Next]_vars
  PROVE  IInv'
<1>1. CASE Sketch
  BY <1>1, WriteToHolds, ReadFromHolds, ReturnHolds DEF Sketch
<1>2. CASE Handler
  BY <1>2, SendAddressHolds, SendNextHolds, SendRefusedHolds, GetNextHolds, GetLastHolds,
     BeginReceiveHolds, ReceiveHolds, EndReceiveHolds, EndCallbackHolds, BeginTransmitHolds,
     TransmitNextHolds, EndTransmitHolds DEF Handler
<1>3. CASE Bus
  BY <1>3, StartedHolds, AddressedHolds, WrittenHolds, FetchedHolds, StoppedHolds DEF Bus
<1>4. CASE UNCHANGED vars
  BY <1>4, StutterHolds
<1>5. QED
  BY <1>1, <1>2, <1>3, <1>4 DEF Next

\* When nothing is going on, the master is idle, and nothing waits to be told or seen.
LEMMA QuietIsIdle ==
  ASSUME IInv, Quiet
  PROVE  Idle /\ Seen = seen /\ Told = told /\ Seen = Told
<1>1. Idle
  BY DEF IInv, Phase, Quiet, Opening, Refused, Writing, Reading, Active
<1>2. QED
  BY <1>1, TwoBoards DEF IInv, Quiet, Seen, Told

\* Whatever the master sends, and whatever it sends next while the slave's sketch is
\* still in its callback: endTransmission returns 0 for exactly the messages that the
\* slave's sketch is called with, in their order, provided the sketch reads them all.
THEOREM MessagesArrive == ASSUME Kept PROVE Spec => []WritesAreTold
<1>1. Init => IInv
  BY InitHolds
<1>2. IInv /\ [Next]_vars => IInv'
  BY NextHolds
<1>3. IInv => WritesAreTold
  BY QuietIsIdle DEF WritesAreTold, Idle, Outcome, Quiet, Writes
<1>4. QED
  BY <1>1, <1>2, <1>3, PTL DEF Spec

\* However many bytes the master asks for, and however many the slave's sketch
\* answers: requestFrom returns the answer's bytes, and ones behind them.
THEOREM RequestsServed == ASSUME Kept PROVE Spec => []ReadsAreServed
<1>1. Init => IInv
  BY InitHolds
<1>2. IInv /\ [Next]_vars => IInv'
  BY NextHolds
<1>3. IInv => ReadsAreServed
  BY QuietIsIdle DEF ReadsAreServed, Idle, Outcome, Expected, Quiet, Reads
<1>4. QED
  BY <1>1, <1>2, <1>3, PTL DEF Spec
=====
