-------------------------------- MODULE TwoWire --------------------------------
(***************************************************************************)
(* The Wire library on two boards, as in TestCases/I2CCommunication.cpp:   *)
(* one board is the master, the other the slave, and both run the          *)
(* interrupt handler of twi.c.  A TWI unit that asks for an interrupt      *)
(* (TWINT) holds the clock line, so that the bus goes on when both boards  *)
(* have answered; what the units do is external.                           *)
(*                                                                         *)
(* A callback of the sketch runs inside the slave's handler: the one for   *)
(* data that were received after the handler gave the bus free, so that a  *)
(* transfer can begin meanwhile.  The master's sketch may wait before it   *)
(* reads (Patient), as that test and ERxAM2311 do.                         *)
(***************************************************************************)
EXTENDS Integers, Sequences, FiniteSets, SequencesExt, FiniteSetsExt

CONSTANTS
  Messages,        \* what the master may send
  Replies,         \* what the slave's sketch may answer
  Quantities,      \* how many bytes the master may ask for
  BUFFER_LENGTH,
  Leaves,          \* how many bytes the slave's sketch leaves unread
  Patient,
  MaxTransfers

ASSUME TwoWireAssumption ==
  /\ BUFFER_LENGTH \in Nat \ {0} /\ MaxTransfers \in Nat /\ Leaves \in Nat
  /\ Quantities \subseteq Nat \ {0}
  /\ Patient \in BOOLEAN
  /\ \A m \in Messages \cup Replies : m \in Seq(Nat)
  /\ \A r \in Replies : Len(r) <= BUFFER_LENGTH

Boards == {"master", "slave"}
ONES == 255         \* what an open bus reads as

VARIABLES
  twi_state,       \* of each board
  transfer,        \* what the master's sketch called last, and what it was told
  masterBuffer,    \* twi_masterBuffer up to its index, when the master reads
  left,            \* the bytes it has still to send or, but for the last one, to get
  twi_error,       \* of the master
  rxBuffer,        \* twi_rxBuffer up to its index, of the slave
  txBuffer,        \* twi_txBuffer of the slave, up to its length
  txIndex,
  calling,         \* the slave's sketch is in its receive callback
  unread,          \* Wire.available() of the slave
  told,            \* the messages that endTransmission returned 0 for
  seen,            \* the messages the slave's sketch was called with
  TWINT, TWEA, TWDR,  \* of each board's unit: the status it interrupts with, acks, the byte
  bus,             \* what the master's unit was told to do
  addressed        \* what the slave's unit is addressed for

driver == <<twi_state, masterBuffer, left, twi_error, rxBuffer, txBuffer, txIndex>>
sketch == <<transfer, told, calling, unread, seen>>
unit == <<TWINT, TWEA, TWDR, bus, addressed>>
vars == <<driver, sketch, unit>>

Init ==
  /\ twi_state = [b \in Boards |-> "READY"]
  /\ transfer = [kind |-> "none", number |-> 0, returned |-> TRUE]
  /\ masterBuffer = <<>> /\ left = <<>> /\ twi_error = "none"
  /\ rxBuffer = <<>> /\ txBuffer = <<>> /\ txIndex = 0
  /\ calling = FALSE /\ unread = 0 /\ told = <<>> /\ seen = <<>>
  /\ TWINT = [b \in Boards |-> "none"]
  /\ TWEA = [b \in Boards |-> TRUE]
  /\ TWDR = [b \in Boards |-> ONES]
  /\ bus = "free" /\ addressed = "no"

-----------------------------------------------------------------------------
(* The master's sketch.                                                    *)

\* TwoWire::write keeps what there is room for.
BufferedAll(message) == message
Buffered(message) == SubSeq(message, 1, Min({Len(message), BUFFER_LENGTH}))
Clamped(quantity) == Min({quantity, BUFFER_LENGTH})

MayCall == transfer.returned /\ transfer.number < MaxTransfers

Call(kind, state, bytes) ==
  /\ transfer' = [kind |-> kind, number |-> transfer.number + 1, returned |-> FALSE,
                  bytes |-> bytes, result |-> <<>>, present |-> FALSE, served |-> <<>>]
  /\ twi_state' = [twi_state EXCEPT !["master"] = state]
  /\ twi_error' = "none"
  /\ masterBuffer' = <<>>
  /\ bus' = "START"
  /\ UNCHANGED <<rxBuffer, txBuffer, txIndex, told, calling, unread, seen, TWINT, TWEA, TWDR,
                 addressed>>

\* beginTransmission, write and endTransmission.
WriteTo(message) ==
  /\ MayCall /\ Call("write", "MTX", Buffered(message))
  /\ left' = Buffered(message)

\* requestFrom.  A byte is acknowledged or not before it comes: one fewer than
\* are wanted will be.
FullLength(n) == [i \in 1..n |-> ONES]
ReadLength(n) == [i \in 1..n - 1 |-> ONES]

ReadFrom(quantity) ==
  /\ MayCall
  /\ Patient => TWINT["slave"] = "none" /\ ~calling
  /\ Call("read", "MRX", FullLength(Clamped(quantity)))
  /\ left' = ReadLength(Clamped(quantity))

Status ==
  CASE twi_error = "none" -> 0
    [] twi_error = "MT_SLA_NACK" -> 2
    [] twi_error = "MT_DATA_NACK" -> 3
    [] OTHER -> 4

\* The call was waiting for the handler to leave its state.
Return ==
  /\ ~transfer.returned /\ twi_state["master"] = "READY"
  /\ transfer' = [transfer EXCEPT !.returned = TRUE,
                    !.result = IF transfer.kind = "write" THEN Status ELSE masterBuffer]
  /\ told' = IF transfer.kind = "write" /\ Status = 0
             THEN Append(told, transfer.bytes) ELSE told
  /\ UNCHANGED <<driver, calling, unread, seen, unit>>

Sketch ==
  \/ \E m \in Messages : WriteTo(m)
  \/ \E n \in Quantities : ReadFrom(n)
  \/ Return

-----------------------------------------------------------------------------
(* The interrupt handler, on the master.                                   *)

Interrupted(b, statuses) ==
  /\ TWINT[b] \in statuses
  /\ b = "slave" => ~calling

\* twi_reply
Reply(b, ack) ==
  /\ TWINT' = [TWINT EXCEPT ![b] = "none"]
  /\ TWEA' = [TWEA EXCEPT ![b] = ack]

\* twi_stop, which waits until the bus has stopped.
StopNot == Reply("master", TRUE) /\ UNCHANGED bus
Stop == Reply("master", TRUE) /\ bus' = "STOP"

Masters == UNCHANGED <<twi_state, rxBuffer, txBuffer, txIndex, sketch, addressed>>

SendAddress ==
  /\ Interrupted("master", {"START"})
  /\ Reply("master", TRUE) /\ bus' = "ADDRESS"
  /\ Masters /\ UNCHANGED <<masterBuffer, left, twi_error, TWDR>>

SendNext ==
  /\ Interrupted("master", {"MT_SLA_ACK", "MT_DATA_ACK"})
  /\ IF left # <<>>
     THEN /\ TWDR' = [TWDR EXCEPT !["master"] = Head(left)]
          /\ left' = Tail(left)
          /\ Reply("master", TRUE) /\ bus' = "DATA"
     ELSE Stop /\ UNCHANGED <<TWDR, left>>
  /\ Masters /\ UNCHANGED <<masterBuffer, twi_error>>

SendRefused ==
  /\ Interrupted("master", {"MT_SLA_NACK", "MT_DATA_NACK"})
  /\ twi_error' = TWINT["master"]
  /\ Stop
  /\ Masters /\ UNCHANGED <<masterBuffer, left, TWDR>>

\* Whether one more byte after the next one is wanted decides on its acknowledgment.
GetNext ==
  /\ Interrupted("master", {"MR_SLA_ACK", "MR_DATA_ACK"})
  /\ LET got == TWINT["master"] = "MR_DATA_ACK"
     IN  /\ masterBuffer' = IF got THEN Append(masterBuffer, TWDR["master"]) ELSE masterBuffer
         /\ Reply("master", Len(masterBuffer') < Len(left))
  /\ bus' = "DATA"
  /\ Masters /\ UNCHANGED <<left, twi_error, TWDR>>

GetLast ==
  /\ Interrupted("master", {"MR_DATA_NACK", "MR_SLA_NACK"})
  /\ masterBuffer' = IF TWINT["master"] = "MR_DATA_NACK"
                     THEN Append(masterBuffer, TWDR["master"]) ELSE masterBuffer
  /\ Stop
  /\ Masters /\ UNCHANGED <<left, twi_error, TWDR>>

-----------------------------------------------------------------------------
(* The interrupt handler, on the slave.                                    *)

State(state) == twi_state' = [twi_state EXCEPT !["slave"] = state]
Slaves == UNCHANGED <<masterBuffer, left, twi_error, bus, addressed>>

BeginReceive ==
  /\ Interrupted("slave", {"SR_SLA_ACK"})
  /\ State("SRX") /\ rxBuffer' = <<>>
  /\ Reply("slave", TRUE)
  /\ Slaves /\ UNCHANGED <<txBuffer, txIndex, sketch, TWDR>>

Receive ==
  /\ Interrupted("slave", {"SR_DATA_ACK"})
  /\ IF Len(rxBuffer) < BUFFER_LENGTH
     THEN rxBuffer' = Append(rxBuffer, TWDR["slave"]) /\ Reply("slave", TRUE)
     ELSE Reply("slave", FALSE) /\ UNCHANGED rxBuffer
  /\ Slaves /\ UNCHANGED <<twi_state, txBuffer, txIndex, sketch, TWDR>>

\* The bus is given free before the callback: onReceiveService drops the data
\* when there are some the sketch has not read.
EndReceive ==
  /\ Interrupted("slave", {"SR_STOP"})
  /\ State("READY") /\ Reply("slave", TRUE)
  /\ calling' = TRUE
  /\ IF unread > 0
     THEN UNCHANGED <<seen, unread>>
     ELSE /\ seen' = Append(seen, rxBuffer)
          /\ unread' = Min({Leaves, Len(rxBuffer)})
  /\ Slaves /\ UNCHANGED <<rxBuffer, txBuffer, txIndex, transfer, told, TWDR>>

\* twi_releaseBus after the callback: an interrupt that came meanwhile is cleared.
Release == Reply("slave", TRUE)

EndCallback ==
  /\ calling /\ calling' = FALSE
  /\ rxBuffer' = <<>>
  /\ State("READY") /\ Release
  /\ Slaves /\ UNCHANGED <<txBuffer, txIndex, transfer, told, unread, seen, TWDR>>

\* The byte at the index, and whether it is the last one.  Past the buffer, the
\* handler reads what happens to be there.
Transmit(buffer, i) ==
  /\ TWDR' = [TWDR EXCEPT !["slave"] = IF i < Len(buffer) THEN buffer[i + 1] ELSE ONES]
  /\ txIndex' = i + 1
  /\ Reply("slave", i + 1 < Len(buffer))

\* The sketch's request callback calls twi_transmit; an empty answer is a 0.
Answered(reply) == IF reply = <<>> THEN <<0>> ELSE reply

BeginTransmit(reply) ==
  /\ Interrupted("slave", {"ST_SLA_ACK"})
  /\ State("STX")
  /\ txBuffer' = Answered(reply)
  /\ Transmit(Answered(reply), 0)
  /\ transfer' = [transfer EXCEPT !.served = Answered(reply)]
  /\ Slaves /\ UNCHANGED <<rxBuffer, told, calling, unread, seen>>

TransmitNext ==
  /\ Interrupted("slave", {"ST_DATA_ACK"})
  /\ Transmit(txBuffer, txIndex)
  /\ Slaves /\ UNCHANGED <<twi_state, rxBuffer, txBuffer, sketch>>

\* ST_DATA_NACK and ST_LAST_DATA.
ListenNot == Reply("slave", FALSE)
Listen == Reply("slave", TRUE)

EndTransmit ==
  /\ Interrupted("slave", {"ST_DATA_NACK", "ST_LAST_DATA"})
  /\ State("READY") /\ Listen
  /\ Slaves /\ UNCHANGED <<rxBuffer, txBuffer, txIndex, sketch, TWDR>>

Handler ==
  \/ SendAddress \/ SendNext \/ SendRefused \/ GetNext \/ GetLast
  \/ BeginReceive \/ Receive \/ EndReceive \/ EndCallback
  \/ \E r \in Replies : BeginTransmit(r)
  \/ TransmitNext \/ EndTransmit

-----------------------------------------------------------------------------
(* The units and the bus between them.                                     *)

Clock(command) == bus = command /\ \A b \in Boards : TWINT[b] = "none"

Interrupts(master, slave) == TWINT' = [b \in Boards |-> IF b = "master" THEN master ELSE slave]
Units == UNCHANGED <<masterBuffer, left, twi_error, rxBuffer, txBuffer, txIndex, told, calling, unread,
                     seen>>

Started ==
  /\ Clock("START")
  /\ Interrupts("START", "none")
  /\ bus' = "held"
  /\ Units /\ UNCHANGED <<twi_state, transfer, TWEA, TWDR, addressed>>

\* The slave may be off, and answers to its address when it is to acknowledge.
Addressed(present) ==
  LET heard == present /\ TWEA["slave"]
      writing == transfer.kind = "write"
  IN  /\ Clock("ADDRESS")
      /\ Interrupts(IF writing THEN IF heard THEN "MT_SLA_ACK" ELSE "MT_SLA_NACK"
                    ELSE IF heard THEN "MR_SLA_ACK" ELSE "MR_SLA_NACK",
                    IF ~heard THEN "none" ELSE IF writing THEN "SR_SLA_ACK" ELSE "ST_SLA_ACK")
      /\ addressed' = IF ~heard THEN "no" ELSE transfer.kind
      /\ transfer' = [transfer EXCEPT !.present = present]
      /\ bus' = "held"
      /\ Units /\ UNCHANGED <<twi_state, TWEA, TWDR>>

\* Both boards have buffers of one size, so that no byte is refused that the slave's
\* handler would be told of (SR_DATA_NACK).
Written ==
  /\ Clock("DATA") /\ transfer.kind = "write"
  /\ LET ack == addressed = "write" /\ TWEA["slave"]
     IN  /\ Interrupts(IF ack THEN "MT_DATA_ACK" ELSE "MT_DATA_NACK",
                       IF ack THEN "SR_DATA_ACK" ELSE "none")
         /\ addressed' = IF ack THEN addressed ELSE "no"
  /\ TWDR' = [TWDR EXCEPT !["slave"] = IF addressed = "write" THEN TWDR["master"] ELSE @]
  /\ bus' = "held"
  /\ Units /\ UNCHANGED <<twi_state, transfer, TWEA>>

Fetched ==
  /\ Clock("DATA") /\ transfer.kind = "read"
  /\ LET ack == TWEA["master"]
         more == ack /\ TWEA["slave"]
     IN  /\ Interrupts(IF ack THEN "MR_DATA_ACK" ELSE "MR_DATA_NACK",
                       IF addressed = "no" THEN "none"
                       ELSE IF more THEN "ST_DATA_ACK"
                       ELSE IF ack THEN "ST_LAST_DATA" ELSE "ST_DATA_NACK")
         /\ addressed' = IF more THEN addressed ELSE "no"
  /\ TWDR' = [TWDR EXCEPT !["master"] = IF addressed = "read" THEN TWDR["slave"] ELSE ONES]
  /\ bus' = "held"
  /\ Units /\ UNCHANGED <<twi_state, transfer, TWEA>>

\* With it twi_stop returns on the master, which is ready again.
Stopped ==
  /\ Clock("STOP")
  /\ Interrupts("none", IF addressed = "write" THEN "SR_STOP" ELSE "none")
  /\ addressed' = "no" /\ bus' = "free"
  /\ twi_state' = [twi_state EXCEPT !["master"] = "READY"]
  /\ Units /\ UNCHANGED <<transfer, TWEA, TWDR>>

Bus == Started \/ Written \/ Fetched \/ Stopped \/ \E present \in BOOLEAN : Addressed(present)

-----------------------------------------------------------------------------

Next == Sketch \/ Handler \/ Bus

\* The handlers run and the units work; the sketch returns from its calls, and need
\* not make another one.
Spec ==
  /\ Init /\ [][Next]_vars
  /\ WF_vars(Handler) /\ WF_vars(Bus) /\ WF_vars(Return)

-----------------------------------------------------------------------------
(* What the sketches rely on.                                              *)

Quiet == transfer.returned /\ ~calling /\ \A b \in Boards : TWINT[b] = "none"

\* endTransmission tells the truth: it returns 0 for the messages that the slave's
\* sketch is called with, each of them once and in order, and 2 when nobody answers
\* (twi.c:165-217, 326-425, Wire.cpp:112-147, 211-233).
WritesAreTold ==
  Quiet =>
    /\ seen = told
    /\ transfer.kind = "write" => transfer.result = IF transfer.present THEN 0 ELSE 2

\* requestFrom gets as many bytes as it asked for from a slave that is there: what
\* the slave's sketch answered, and ones when that was less, although the length of
\* the answer is not sent (twi.c:108-155, 362-379, 426-459).
ReadsAreServed ==
  Quiet /\ transfer.kind = "read" =>
    transfer.result =
      IF ~transfer.present THEN <<>>
      ELSE [i \in DOMAIN transfer.bytes |->
             IF i <= Len(transfer.served) THEN transfer.served[i] ELSE ONES]

\* A call that waits for the handler returns: neither an answer that is too short
\* nor a slave that is off leaves the master waiting (twi.c:142, 205).
CallsReturn == ~transfer.returned ~> transfer.returned
=============================================================================
