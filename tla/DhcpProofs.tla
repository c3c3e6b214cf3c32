------------------------------ MODULE DhcpProofs ------------------------------
(***************************************************************************)
(* The lease is granted by one server, for any servers, any timeouts and   *)
(* any faults of the network; and the client finds its server although     *)
(* something goes wrong, for any time limit that leaves room for it.       *)
(*                                                                         *)
(* For the lease the invariant follows an acknowledgement from the server  *)
(* to the client: what is on its way, or in the receive buffer, and is for *)
(* this client, carries the address its server granted.  For the search it *)
(* keeps a budget of ticks.                                                *)
(***************************************************************************)
EXTENDS DhcpProperties, SequenceTheorems, FiniteSetTheorems, TLAPS

Answers == [from : Servers, type : {"offer", "ack", "nak"}, xid : Nat, mine : BOOLEAN,
            ip : Servers \cup {NoAddress, Foreign}]

Typed ==
  /\ xid \in Nat
  /\ received \in Seq(Answers)
  /\ network \subseteq [answer : Answers, age : Nat]
  /\ granted \subseteq Servers
  /\ running \subseteq Servers

\* An acknowledgement for this client carries the address that was granted.
Honest(a, grants) == a.mine /\ a.type = "ack" => a.ip = a.from /\ a.from \in grants

AllHonest ==
  /\ \A m \in network : Honest(m.answer, granted)
  /\ \A i \in 1 .. Len(received) : Honest(received[i], granted)

IInv == Typed /\ AllHonest /\ LeaseIsGranted

-----------------------------------------------------------------------------

LEMMA Starts == Init => IInv
<1> SUFFICES ASSUME Init PROVE IInv
  OBVIOUS
<1>1. Typed
  BY EmptySeq DEF Init, Typed
<1>2. AllHonest
  BY DEF Init, AllHonest
<1>3. LeaseIsGranted
  BY DEF Init, LeaseIsGranted
<1> QED
  BY <1>1, <1>2, <1>3 DEF IInv

-----------------------------------------------------------------------------
(* Parts of the steps                                                      *)

\* The head of the receive buffer is an answer, and an honest one.
LEMMA HeadHonest ==
  ASSUME IInv, NEW packet, NextPacket(packet)
  PROVE  packet \in Answers /\ Honest(packet, granted)
<1>1. received \in Seq(Answers) /\ received # <<>> /\ packet = Head(received)
  BY DEF IInv, Typed, NextPacket
<1>2. Len(received) >= 1 /\ Head(received) = received[1] /\ 1 \in 1 .. Len(received)
  BY <1>1
<1> QED
  BY <1>1, <1>2, ElementOfSeq DEF IInv, AllHonest

\* An honest answer stays one: a grant is never taken back.
LEMMA GrantsKeep ==
  ASSUME NEW a, NEW grants, NEW more, Honest(a, grants), grants \subseteq more
  PROVE  Honest(a, more)
BY DEF Honest

\* A server answers with its own address, and grants it before the client knows.
LEMMA HeardHonest ==
  ASSUME NEW s \in Servers, NEW id \in Nat, NEW message, NEW a \in Heard(s, message, id)
  PROVE  a \in Answers /\ a.from = s /\ (a.type = "ack" => a.ip = s)
<1>1. PICK type \in {"offer", "ack", "nak"} : a = Answer(s, type, id)
  BY DEF Heard
<1> QED
  BY <1>1 DEF Answer, Answers

LEMMA SendHonest ==
  ASSUME IInv, NEW id \in Nat, NEW message, Send(message, id),
         received' = <<>> \/ received' = received
  PROVE  /\ AllHonest'
         /\ network' \subseteq [answer : Answers, age : Nat]
         /\ granted \subseteq granted' /\ granted' \subseteq Servers
<1> PICK deaf \in SUBSET running :
      LET answers == UNION {Heard(s, message, id) : s \in running \ deaf}
      IN  /\ network' = network \cup {[answer |-> a, age |-> 0] : a \in answers}
          /\ granted' = granted \cup {a.from : a \in {b \in answers : b.type = "ack"}}
  BY DEF Send
<1> DEFINE answers == UNION {Heard(s, message, id) : s \in running \ deaf}
<1>1. \A a \in answers : a \in Answers /\ a.from \in Servers /\ (a.type = "ack" => a.ip = a.from)
  <2> SUFFICES ASSUME NEW a \in answers
               PROVE  a \in Answers /\ a.from \in Servers /\ (a.type = "ack" => a.ip = a.from)
    OBVIOUS
  <2>1. PICK s \in running \ deaf : a \in Heard(s, message, id)
    OBVIOUS
  <2>2. s \in Servers
    BY DEF IInv, Typed
  <2> QED
    BY <2>1, <2>2, HeardHonest
<1> HIDE DEF answers
<1>2. granted \subseteq granted' /\ granted' \subseteq Servers
  BY <1>1 DEF IInv, Typed, answers
<1>3. \A a \in answers : Honest(a, granted')
  BY <1>1 DEF Honest, answers
<1>4. network' \subseteq [answer : Answers, age : Nat]
  BY <1>1 DEF IInv, Typed, answers
<1>5. \A m \in network' : Honest(m.answer, granted')
  <2> SUFFICES ASSUME NEW m \in network' PROVE Honest(m.answer, granted')
    OBVIOUS
  <2>1. CASE m \in network
    BY <2>1, <1>2, GrantsKeep DEF IInv, AllHonest
  <2>2. CASE \E a \in answers : m = [answer |-> a, age |-> 0]
    BY <2>2, <1>3
  <2> QED
    BY <2>1, <2>2 DEF answers
<1>6. \A i \in 1 .. Len(received') : Honest(received'[i], granted')
  <2>1. CASE received' = <<>>
    BY <2>1
  <2>2. CASE received' = received
    <3>1. \A i \in 1 .. Len(received) : Honest(received[i], granted)
      BY DEF IInv, AllHonest
    <3> QED
      BY <2>2, <3>1, <1>2, GrantsKeep
  <2> QED
    BY <2>1, <2>2
<1>7. AllHonest'
  BY <1>5, <1>6 DEF AllHonest
<1> QED
  BY <1>2, <1>4, <1>7

\* No fault and no sleep makes an answer dishonest, or takes a grant back.
LEMMA NetworkKeeps ==
  ASSUME IInv, UNCHANGED <<client, running, granted>>,
         \A m \in network' : m \in [answer : Answers, age : Nat] /\ Honest(m.answer, granted),
         \/ received' = received
         \/ \E a \in Answers : Honest(a, granted) /\ received' = Append(received, a)
  PROVE  IInv'
<1>1. received' \in Seq(Answers) /\ \A i \in 1 .. Len(received') : Honest(received'[i], granted)
  <2>1. received \in Seq(Answers) /\ \A i \in 1 .. Len(received) : Honest(received[i], granted)
    BY DEF IInv, Typed, AllHonest
  <2>2. CASE received' = received
    BY <2>1, <2>2
  <2>3. ASSUME NEW a \in Answers, Honest(a, granted), received' = Append(received, a)
        PROVE  received' \in Seq(Answers) /\ \A i \in 1 .. Len(received') : Honest(received'[i], granted)
    BY <2>1, <2>3, AppendProperties
  <2> QED
    BY <2>2, <2>3
<1>2. Typed'
  BY <1>1 DEF IInv, Typed, client
<1>3. AllHonest'
  <2>1. granted \subseteq granted'
    OBVIOUS
  <2>2. \A m \in network' : Honest(m.answer, granted')
    BY <2>1, GrantsKeep
  <2>3. \A i \in 1 .. Len(received') : Honest(received'[i], granted')
    BY <2>1, <1>1, GrantsKeep
  <2> QED
    BY <2>2, <2>3 DEF AllHonest
<1>4. LeaseIsGranted'
  BY DEF IInv, LeaseIsGranted, client
<1> QED
  BY <1>2, <1>3, <1>4 DEF IInv

\* A client that looked at a packet, and did not send.
LEMMA FlushKeeps ==
  ASSUME IInv, Flush \/ received' = received, UNCHANGED <<network, running, granted>>,
         xid' \in Nat, LeaseIsGranted'
  PROVE  IInv'
<1>1. Typed'
  BY EmptySeq DEF IInv, Typed, Flush
<1>2. AllHonest'
  <2>1. \A m \in network' : Honest(m.answer, granted')
    BY DEF IInv, AllHonest, Honest
  <2>2. \A i \in 1 .. Len(received) : Honest(received[i], granted)
    BY DEF IInv, AllHonest
  <2>3. \A i \in 1 .. Len(received') : Honest(received'[i], granted')
    <3>1. CASE received' = <<>>
      BY <3>1
    <3>2. CASE received' = received
      BY <3>2, <2>2, GrantsKeep
    <3> QED
      BY <3>1, <3>2 DEF Flush
  <2> QED
    BY <2>1, <2>3 DEF AllHonest
<1> QED
  BY <1>1, <1>2 DEF IInv

\* A client that sent.
LEMMA SendKeeps ==
  ASSUME IInv, NEW id \in Nat, NEW message, Send(message, id),
         received' = <<>> \/ received' = received,
         running' = running, xid' \in Nat, LeaseIsGranted'
  PROVE  IInv'
<1>1. /\ AllHonest'
      /\ network' \subseteq [answer : Answers, age : Nat]
      /\ granted' \subseteq Servers
  BY SendHonest
<1>2. Typed'
  BY <1>1, EmptySeq DEF IInv, Typed
<1> QED
  BY <1>1, <1>2 DEF IInv

-----------------------------------------------------------------------------
(* The steps                                                               *)

LEMMA ClientKeeps == ASSUME IInv, Client PROVE IInv'
<1> USE DEF IInv
<1>1. CASE Begin
  BY <1>1, FlushKeeps DEF Begin, Listen, LeaseIsGranted, Typed
<1>2. CASE Start
  <2>1. xid + 1 \in Nat /\ xid' \in Nat
    BY <1>2 DEF Start, Typed
  <2>2. LeaseIsGranted'
    BY <1>2 DEF Start, Continue, LeaseIsGranted
  <2> QED
    BY <1>2, <2>1, <2>2, SendKeeps DEF Start
<1>3. CASE Overdue
  BY <1>3, FlushKeeps DEF Overdue, Continue, LeaseIsGranted, Typed
<1>4. CASE Sleep
  <2>1. \A m \in network' : m \in [answer : Answers, age : Nat] /\ Honest(m.answer, granted)
    BY <1>4 DEF Sleep, Typed, AllHonest
  <2> QED
    BY <1>4, <2>1, NetworkKeeps DEF Sleep
<1>5. ASSUME NEW packet, Offered(packet) PROVE IInv'
  <2>1. packet \in Answers
    BY <1>5, HeadHonest DEF Offered, Read
  <2>2. LeaseIsGranted'
    BY <1>5 DEF Offered, Continue, LeaseIsGranted
  <2>3. packet.xid \in Nat /\ xid' \in Nat
    BY <1>5, <2>1 DEF Offered, Answers
  <2>4. Send(Request(localIp', serverIp'), packet.xid) /\ received' = <<>> /\ running' = running
    BY <1>5 DEF Offered, Read, Flush
  <2> QED
    BY <2>2, <2>3, <2>4, SendKeeps
<1>6. ASSUME NEW packet, Refused(packet) PROVE IInv'
  BY <1>6, FlushKeeps DEF Refused, Read, Continue, LeaseIsGranted, Typed
<1>7. ASSUME NEW packet, Acknowledged(packet) PROVE IInv'
  <2>1. Honest(packet, granted)
    BY <1>7, HeadHonest DEF Acknowledged
  <2>2. packet.mine /\ packet.type = "ack" /\ Accepts(packet)
    BY <1>7 DEF Acknowledged, Type, Accepts
  <2>4. packet.ip = packet.from /\ packet.from \in granted
    BY <2>1, <2>2 DEF Honest
  <2>5. Gives[packet.from] \subseteq Options
    BY <2>4, DhcpAssumption DEF Typed
  <2>6. PICK misread \in Overruns :
          options' = [o \in Options |->
            IF o \in misread THEN Misread
            ELSE IF packet.type # "nak" /\ o \in Gives[packet.from] THEN packet.from
            ELSE options[o]]
    BY <1>7, <2>2 DEF Acknowledged, Parse
  <2>7. /\ address' = [ip |-> packet.ip, options |-> options'] /\ granted' = granted
        /\ overran' = (Len(received) > 1)
    BY <1>7, <2>2 DEF Acknowledged, Parse, Configure
  <2>8. ASSUME NEW o \in Gives[packet.from]
        PROVE  options'[o] = packet.from \/ (overran' /\ options'[o] = Misread)
    <3>1. o \in Options
      BY <2>5
    <3>2. CASE o \in misread
      <4>1. Len(received) > 1
        BY <3>2 DEF Overruns
      <4>2. QED
        BY <2>6, <2>7, <3>1, <3>2, <4>1
    <3>3. CASE o \notin misread
      BY <2>2, <2>6, <3>1, <3>3
    <3>4. QED
      BY <3>2, <3>3
  <2>3. LeaseIsGranted'
    BY <2>4, <2>7, <2>8 DEF LeaseIsGranted
  <2> QED
    BY <1>7, <2>3, FlushKeeps DEF Acknowledged, Typed
<1>8. ASSUME NEW packet, Ignored(packet) PROVE IInv'
  BY <1>8, FlushKeeps DEF Ignored, Read, Continue, LeaseIsGranted, Typed
<1> QED
  BY <1>1, <1>2, <1>3, <1>4, <1>5, <1>6, <1>7, <1>8 DEF Client

LEMMA NetworkStepKeeps == ASSUME IInv, Network PROVE IInv'
<1>0. \A m \in network : m \in [answer : Answers, age : Nat] /\ Honest(m.answer, granted)
  BY DEF IInv, Typed, AllHonest
<1>1. CASE Arrive
  <2>1. PICK m \in network : received' = Append(received, m.answer) /\ network' = network \ {m}
    BY <1>1 DEF Arrive
  <2>2. m.answer \in Answers /\ Honest(m.answer, granted)
    BY <1>0
  <2>3. \A n \in network' : n \in [answer : Answers, age : Nat] /\ Honest(n.answer, granted)
    BY <1>0, <2>1
  <2>4. UNCHANGED <<client, running, granted>>
    BY <1>1 DEF Arrive
  <2> QED
    BY <2>1, <2>2, <2>3, <2>4, NetworkKeeps
<1>2. CASE Lose
  <2>1. \A n \in network' : n \in [answer : Answers, age : Nat] /\ Honest(n.answer, granted)
    BY <1>0, <1>2 DEF Lose
  <2>2. UNCHANGED <<client, running, granted>> /\ received' = received
    BY <1>2 DEF Lose
  <2> QED
    BY <2>1, <2>2, NetworkKeeps
<1>3. CASE Repeat
  <2>1. PICK m \in network : received' = Append(received, m.answer)
    BY <1>3 DEF Repeat
  <2>2. m.answer \in Answers /\ Honest(m.answer, granted)
    BY <1>0
  <2>3. UNCHANGED <<client, running, granted>> /\ network' = network
    BY <1>3 DEF Repeat
  <2> QED
    BY <1>0, <2>1, <2>2, <2>3, NetworkKeeps
<1>4. CASE Overhear
  <2>1. PICK s \in Servers, id \in 0 .. xid :
          received' = Append(received, [from |-> s, type |-> "ack", xid |-> id, mine |-> FALSE,
                                        ip |-> Foreign])
    BY <1>4 DEF Overhear
  <2> DEFINE a == [from |-> s, type |-> "ack", xid |-> id, mine |-> FALSE, ip |-> Foreign]
  <2>2. a \in Answers /\ Honest(a, granted)
    BY DEF Answers, Honest
  <2>3. UNCHANGED <<client, running, granted>> /\ network' = network
    BY <1>4 DEF Overhear
  <2> HIDE DEF a
  <2>4. received' = Append(received, a)
    BY <2>1 DEF a
  <2> QED
    BY <1>0, <2>2, <2>3, <2>4, NetworkKeeps
<1>5. CASE Delay
  <2>1. PICK m \in network : network' = (network \ {m}) \cup {[m EXCEPT !.age = 0]}
    BY <1>5 DEF Delay
  <2>2. [m EXCEPT !.age = 0] \in [answer : Answers, age : Nat]
        /\ [m EXCEPT !.age = 0].answer = m.answer
    BY <1>0
  <2>3. \A n \in network' : n \in [answer : Answers, age : Nat] /\ Honest(n.answer, granted)
    BY <1>0, <2>1, <2>2
  <2>4. UNCHANGED <<client, running, granted>> /\ received' = received
    BY <1>5 DEF Delay
  <2> QED
    BY <2>3, <2>4, NetworkKeeps
<1> QED
  BY <1>1, <1>2, <1>3, <1>4, <1>5 DEF Network

\* Nothing changes.
LEMMA StutterKeeps == ASSUME IInv, UNCHANGED vars PROVE IInv'
BY DEF IInv, Typed, AllHonest, Honest, LeaseIsGranted, vars, client, clock

-----------------------------------------------------------------------------

\* Whatever the network loses, delays, repeats or brings by mistake, the chip gets an
\* address that a server granted to this client, and with it the options that this
\* server gives, unless the acknowledgement was parsed with packets behind it
\* (Dhcp.cpp:47-71, 231-317).
THEOREM Lease == Spec => []LeaseIsGranted
<1>1. Init => IInv
  BY Starts
<1>2. IInv /\ [Next]_vars => IInv'
  BY ClientKeeps, NetworkStepKeeps, StutterKeeps DEF Next
<1>3. IInv => LeaseIsGranted
  BY DEF IInv
<1> QED
  BY <1>1, <1>2, <1>3, PTL DEF Spec

-----------------------------------------------------------------------------
(* The client perseveres.  When one server runs, a budget of ticks shows   *)
(* it: whatever happened, the ticks that went by and those that the client *)
(* needs at most, if no more goes wrong, are within what the faults so far *)
(* account for.                                                            *)

\* The time limit leaves room for the faults, and an answer that is not held up comes
\* before the client gives it up.
Patient ==
  /\ Latency <= ResponseTimeout
  /\ 2 * Latency + MaxFaults * (2 * (ResponseTimeout + 1) + 4 * Latency) <= Timeout

Turn == ResponseTimeout + 1                \* the ticks of a wait that is given up
Cost == 2 * Turn + 4 * Latency             \* what a fault can cost
Budget(f) == 2 * Latency + f * Cost
Need(n) == n * Latency                     \* the ticks in which n packets arrive

Packets == Cardinality(network) + Len(received)
Silent == network = {} /\ received = <<>>
Late == \E m \in network : m.age < waited  \* an answer that was held up during this wait
Waiting == dhcp_state \in {"discover", "request"}

\* The one packet is the answer that the client waits for.
Expected(a, type) == a.mine /\ a.type = type /\ a.xid <= xid
OnItsWay(type) ==
  \/ received = <<>> /\ \E m \in network : network = {m} /\ m.age >= waited /\ Expected(m.answer, type)
  \/ network = {} /\ waited <= Latency /\ \E a \in Answers : received = <<a>> /\ Expected(a, type)

\* Nothing went wrong in this attempt.
Straight ==
  \/ dhcp_state = "start" /\ Silent /\ elapsed + 2 * Latency <= Budget(faults)
  \/ dhcp_state = "discover" /\ OnItsWay("offer")
     /\ elapsed + 2 * Latency <= Budget(faults) + waited
  \/ dhcp_state = "request" /\ OnItsWay("ack") /\ elapsed + Latency <= Budget(faults) + waited

\* Packets of earlier attempts are about, or the answer is lost: the client reads what
\* there is, waits once more in vain, and starts over.
Extra == IF dhcp_state = "discover" THEN Latency ELSE 0
Detour ==
  \/ dhcp_state = "start"
     /\ elapsed + 4 * Latency + Need(Packets) + Turn <= Budget(faults)
  \/ Waiting /\ Silent /\ elapsed + 2 * Latency + Turn <= Budget(faults) + waited
  \/ Waiting /\ Late
     /\ elapsed + 4 * Latency + Need(Packets) + 2 * Turn <= Budget(faults) + waited
  \/ Waiting /\ ~Late /\ ~Silent
     /\ elapsed + 2 * Latency + Need(Packets) + Turn + Extra <= Budget(faults) + waited
     /\ elapsed + Latency + Need(Packets) + Turn + Extra <= Budget(faults)

OnTime ==
  \/ dhcp_state \in {"no socket", "leased"}
  \/ dhcp_state = "begin" /\ Silent /\ elapsed + 2 * Latency <= Budget(faults)
  \/ Straight \/ Detour

\* Only server s answers, to what this client sends.
FromServer(a, s) == a.mine => a.from = s /\ a.type \in {"offer", "ack"} /\ a.ip = s
OnlyFrom(s) ==
  /\ serverIp \in {NoAddress, s}
  /\ \A m \in network : FromServer(m.answer, s)
  /\ \A i \in 1 .. Len(received) : FromServer(received[i], s)

Alone(s) == running = {s} /\ OnlyFrom(s) /\ OnTime

Counted ==
  /\ elapsed \in Nat /\ waited \in 0 .. Turn /\ faults \in 0 .. MaxFaults
  /\ IsFiniteSet(network) /\ \A m \in network : m.age <= Latency

\* Lemmas about numbers

LEMMA Sizes ==
  /\ Latency \in Nat /\ Latency > 0 /\ Turn \in Nat /\ Turn > 0 /\ Cost \in Nat
  /\ ResponseTimeout \in Nat /\ Timeout \in Nat /\ MaxFaults \in Nat
  /\ Cost = 2 * Turn + 4 * Latency /\ Turn = ResponseTimeout + 1
BY DhcpAssumption DEF Turn, Cost

LEMMA NeedGrows ==
  /\ Need(0) = 0
  /\ \A n \in Nat : Need(n) \in Nat /\ Need(n + 1) = Need(n) + Latency
  /\ \A n, p \in Nat : n <= p => Need(n) <= Need(p)
<1>1. \A a, b \in Nat : a * b \in Nat
  OBVIOUS
<1>2. \A n, p \in Nat : n <= p => Need(n) <= Need(p)
  <2>1. SUFFICES ASSUME NEW n \in Nat, NEW p \in Nat, n <= p PROVE n * Latency <= p * Latency
    BY DEF Need
  <2>2. p - n \in Nat
    BY <2>1
  <2>3. (p - n) * Latency \in Nat
    BY <1>1, <2>2, Sizes
  <2>4. p * Latency = n * Latency + (p - n) * Latency
    BY Sizes
  <2>5. n * Latency \in Nat
    BY <1>1, Sizes
  <2>6. QED
    BY <2>3, <2>4, <2>5
<1>3. Need(0) = 0
  BY Sizes DEF Need
<1>4. \A n \in Nat : Need(n) \in Nat
  BY <1>1, Sizes DEF Need
<1>5. \A n \in Nat : Need(n + 1) = Need(n) + Latency
  BY Sizes DEF Need
<1>6. QED
  BY <1>2, <1>3, <1>4, <1>5

LEMMA NeedOfOne == Need(1) = Latency
BY Sizes DEF Need

LEMMA BudgetGrows ==
  /\ Budget(0) = 2 * Latency
  /\ \A f \in Nat : Budget(f) \in Nat /\ Budget(f + 1) = Budget(f) + Cost
  /\ Patient => \A f \in 0 .. MaxFaults : Budget(f) <= Timeout
<1>1. \A a, b \in Nat : a * b \in Nat
  OBVIOUS
<1>2. ASSUME Patient, NEW f \in 0 .. MaxFaults PROVE Budget(f) <= Timeout
  <2>1. f \in Nat /\ MaxFaults - f \in Nat
    BY Sizes
  <2>2. (MaxFaults - f) * Cost \in Nat /\ f * Cost \in Nat
    BY <1>1, <2>1, Sizes
  <2>3. MaxFaults * Cost = f * Cost + (MaxFaults - f) * Cost
    BY <2>1, Sizes
  <2>4. 2 * Latency + MaxFaults * Cost <= Timeout
    BY <1>2 DEF Patient, Cost, Turn
  <2>5. QED
    BY <2>2, <2>3, <2>4, Sizes DEF Budget
<1>3. Budget(0) = 2 * Latency
  BY Sizes DEF Budget
<1>4. \A f \in Nat : f * Cost \in Nat
  BY <1>1, Sizes
<1>5. \A f \in Nat : Budget(f) \in Nat /\ Budget(f + 1) = Budget(f) + Cost
  BY <1>4, Sizes DEF Budget
<1>6. QED
  BY <1>2, <1>3, <1>5

\* The smaller of two numbers.
LEMMA MinOfTwo ==
  ASSUME NEW a \in Nat, NEW b \in Nat
  PROVE  Min({a, b}) = IF a <= b THEN a ELSE b
<1>1. \E x \in {a, b} : \A y \in {a, b} : x <= y
  OBVIOUS
<1>2. Min({a, b}) \in {a, b} /\ \A y \in {a, b} : Min({a, b}) <= y
  BY <1>1 DEF Min
<1>3. QED
  BY <1>2

\* Lemmas about the packets

LEMMA PacketsCounted ==
  ASSUME Typed, Counted
  PROVE  /\ Cardinality(network) \in Nat /\ Len(received) \in Nat /\ Packets \in Nat
         /\ Packets = Cardinality(network) + Len(received)
         /\ Silent <=> Packets = 0
         /\ received = <<>> <=> Len(received) = 0
<1>1. Cardinality(network) \in Nat
  BY FS_CardinalityType DEF Counted
<1>2. Len(received) \in Nat /\ (received = <<>> <=> Len(received) = 0)
  BY EmptySeq DEF Typed
<1>3. network = {} <=> Cardinality(network) = 0
  BY FS_EmptySet DEF Counted
<1>4. QED
  BY <1>1, <1>2, <1>3 DEF Packets, Silent

\* A wait that begins with what is needed for it is on time.
Ready ==
  /\ Waiting /\ waited = 0
  /\ elapsed + 2 * Latency + Need(Packets) + Turn + Extra <= Budget(faults)

LEMMA WaitBegins == ASSUME Typed, Counted, Ready PROVE OnTime
<1>0. Waiting /\ waited = 0
      /\ elapsed + 2 * Latency + Need(Packets) + Turn + Extra <= Budget(faults)
  BY DEF Ready
<1>1. Packets \in Nat /\ (Silent <=> Packets = 0) /\ Need(0) = 0 /\ Need(Packets) \in Nat
  BY PacketsCounted, NeedGrows
<1>2. ~ Late
  <2>1. \A m \in network : m.age \in Nat
    BY DEF Typed
  <2>2. QED
    BY <1>0, <2>1 DEF Late
<1>3. Extra \in Nat /\ elapsed \in Nat /\ faults \in Nat /\ Budget(faults) \in Nat
  BY Sizes, BudgetGrows DEF Extra, Counted
<1>4. CASE Silent
  <2>1. elapsed + 2 * Latency + Turn <= Budget(faults) + waited
    BY <1>0, <1>1, <1>3, Sizes
  <2>2. QED
    BY <1>0, <1>4, <2>1 DEF OnTime, Detour
<1>5. CASE ~ Silent
  <2>1. /\ elapsed + 2 * Latency + Need(Packets) + Turn + Extra <= Budget(faults) + waited
        /\ elapsed + Latency + Need(Packets) + Turn + Extra <= Budget(faults)
    BY <1>0, <1>1, <1>3, Sizes
  <2>2. QED
    BY <1>0, <1>2, <1>5, <2>1 DEF OnTime, Detour
<1>6. QED
  BY <1>4, <1>5

\* What the client may still need at most, while it waits and something is there.
LEMMA WaitNeeds ==
  ASSUME Typed, Counted, Waiting, Detour, ~ Silent
  PROVE  /\ elapsed + Latency + Need(Packets) + Turn + Extra <= Budget(faults)
         /\ elapsed + 2 * Latency + Need(Packets) + Turn <= Budget(faults) + waited
<1>1. Packets \in Nat /\ Need(Packets) \in Nat /\ Extra \in {0, Latency} /\ waited \in 0 .. Turn
  BY PacketsCounted, NeedGrows DEF Extra, Counted
<1>2. elapsed \in Nat /\ faults \in Nat /\ Budget(faults) \in Nat
  BY Sizes, BudgetGrows DEF Counted
<1>3. CASE Late /\ elapsed + 4 * Latency + Need(Packets) + 2 * Turn <= Budget(faults) + waited
  BY <1>1, <1>2, <1>3, Sizes
<1>4. CASE /\ elapsed + 2 * Latency + Need(Packets) + Turn + Extra <= Budget(faults) + waited
           /\ elapsed + Latency + Need(Packets) + Turn + Extra <= Budget(faults)
  BY <1>1, <1>2, <1>4, Sizes
<1>5. dhcp_state # "start"
  BY DEF Waiting
<1>6. QED
  BY <1>3, <1>4, <1>5 DEF Detour

\* In time, the limit is not reached.
LEMMA NotYetOver ==
  ASSUME Typed, Counted, Patient, OnTime, dhcp_state \in {"begin", "start"} \/ Waiting
  PROVE  elapsed <= Timeout
<1>1. Packets \in Nat /\ Need(Packets) \in Nat /\ Extra \in {0, Latency} /\ waited \in 0 .. Turn
  BY PacketsCounted, NeedGrows DEF Extra, Counted
<1>2. elapsed \in Nat /\ faults \in 0 .. MaxFaults /\ Budget(faults) \in Nat /\ Budget(faults) <= Timeout
  BY Sizes, BudgetGrows DEF Counted
<1>3. CASE Straight
  <2>1. ASSUME NEW type, OnItsWay(type) PROVE waited <= Latency
    <3>1. CASE \E m \in network : m.age >= waited
      BY <3>1, <1>1, Sizes DEF Counted, Typed
    <3>2. QED
      BY <2>1, <3>1 DEF OnItsWay
  <2>2. QED
    BY <1>1, <1>2, <1>3, <2>1, Sizes DEF Straight
<1>4. CASE Detour
  <2>1. CASE Waiting /\ ~ Silent
    BY <1>1, <1>2, <1>4, <2>1, WaitNeeds, Sizes
  <2>2. CASE Waiting /\ Silent
    BY <1>1, <1>2, <1>4, <2>2, Sizes DEF Detour, Waiting
  <2>3. CASE dhcp_state = "start"
    BY <1>1, <1>2, <1>4, <2>3, Sizes DEF Detour, Waiting
  <2>4. QED
    BY <1>4, <2>1, <2>2, <2>3 DEF Detour
<1>5. CASE dhcp_state = "begin" /\ elapsed + 2 * Latency <= Budget(faults)
  BY <1>2, <1>5, Sizes
<1>6. QED
  BY <1>3, <1>4, <1>5 DEF OnTime, Waiting

\* Whatever a fault does to the packets, it does not cost more than is counted for it.
LEMMA FaultCosts ==
  ASSUME Typed, Counted, OnTime, dhcp_state = "start" \/ Waiting,
         Typed', Counted', UNCHANGED <<dhcp_state, elapsed, waited>>, faults' = faults + 1,
         \/ Packets' <= Packets
         \/ Packets' <= Packets + 1 /\ (Late' => Late)
  PROVE  OnTime'
<1> DEFINE p == Packets
           q == Packets'
<1>1. /\ p \in Nat /\ (Silent <=> p = 0) /\ Need(p) \in Nat
      /\ Extra \in {0, Latency} /\ waited \in 0 .. Turn /\ elapsed \in Nat
  BY PacketsCounted, NeedGrows DEF Extra, Counted
<1>2. (Typed /\ Counted => Packets \in Nat /\ (Silent <=> Packets = 0))'
  BY PacketsCounted, PTL
<1>3. q \in Nat /\ (Silent' <=> q = 0) /\ Need(q) \in Nat
  BY <1>2, NeedGrows
<1>4. q <= p + 1 /\ (Late' => q <= p \/ Late)
  BY <1>1, <1>3
<1>5. /\ Need(q) <= Need(p) + Latency
      /\ q <= p => Need(q) <= Need(p)
      /\ p = 0 => Need(p) = 0
  <2>1. Need(q) <= Need(p + 1) /\ Need(p + 1) = Need(p) + Latency
    BY <1>1, <1>3, <1>4, NeedGrows
  <2>2. QED
    BY <1>1, <1>3, <2>1, NeedGrows
<1>6. /\ faults \in Nat /\ Budget(faults) \in Nat
      /\ Budget(faults') = Budget(faults) + 2 * Turn + 4 * Latency
  <2>1. faults \in Nat
    BY Sizes DEF Counted
  <2>2. QED
    BY <2>1, BudgetGrows, Sizes
<1>7. Extra' = Extra
  BY DEF Extra
<1> HIDE DEF p, q
<1>8. CASE dhcp_state = "start"
  <2>1. elapsed + 3 * Latency + Need(q) <= Budget(faults) + 2 * Latency + Turn
    <3>1. CASE Silent /\ elapsed + 2 * Latency <= Budget(faults)
      <4>1. p = 0 /\ Need(q) <= Latency
        BY <3>1, <1>1, <1>3, <1>5, Sizes
      <4>2. QED
        BY <3>1, <4>1, <1>1, <1>3, <1>6, Sizes
    <3>2. CASE elapsed + 4 * Latency + Need(p) + Turn <= Budget(faults)
      BY <3>2, <1>1, <1>3, <1>5, <1>6, Sizes
    <3>3. QED
      BY <1>8, <3>1, <3>2 DEF OnTime, Straight, Detour, Waiting, p
  <2>2. elapsed' + 4 * Latency + Need(q) + Turn <= Budget(faults')
    BY <2>1, <1>1, <1>3, <1>6, Sizes
  <2>3. QED
    BY <1>8, <2>2 DEF OnTime, Detour, q
<1>9. CASE Waiting
  <2>1. \/ elapsed + Latency <= Budget(faults) + waited /\ p = 1 /\ waited <= Latency
        \/ p = 0 /\ elapsed + 2 * Latency + Turn <= Budget(faults) + waited
        \/ /\ elapsed + Latency + Need(p) + Turn + Extra <= Budget(faults)
           /\ elapsed + 2 * Latency + Need(p) + Turn <= Budget(faults) + waited
    <3>1. ASSUME NEW type, OnItsWay(type) PROVE p = 1 /\ waited <= Latency
      <4>1. CASE received = <<>> /\ \E m \in network : network = {m} /\ m.age >= waited
        <5>1. Cardinality(network) = 1 /\ Len(received) = 0
          BY <4>1, FS_Singleton
        <5>2. waited <= Latency
          BY <4>1, <1>1, Sizes DEF Counted, Typed
        <5>3. QED
          BY <5>1, <5>2 DEF p, Packets
      <4>2. CASE network = {} /\ waited <= Latency /\ \E a \in Answers : received = <<a>>
        BY <4>2, FS_EmptySet DEF p, Packets
      <4>3. QED
        BY <3>1, <4>1, <4>2 DEF OnItsWay
    <3>2. CASE Straight
      BY <3>1, <3>2, <1>1, <1>6, <1>9, Sizes DEF Straight, Waiting
    <3>3. CASE Detour /\ Silent
      <4>1. elapsed + 2 * Latency + Turn <= Budget(faults) + waited
        BY <3>3, <1>1, <1>5, <1>6, <1>9, Sizes DEF Detour, Waiting, p
      <4>2. QED
        BY <3>3, <4>1, <1>1
    <3>4. CASE Detour /\ ~ Silent
      BY <3>4, <1>9, WaitNeeds DEF p
    <3>5. QED
      BY <1>9, <3>2, <3>3, <3>4 DEF OnTime, Waiting
  <2>2. CASE Silent'
    <3>1. elapsed' + 2 * Latency + Turn <= Budget(faults') + waited'
      BY <2>1, <1>1, <1>5, <1>6, Sizes
    <3>2. QED
      BY <1>9, <2>2, <3>1 DEF OnTime, Detour, Waiting
  <2>3. CASE Late'
    <3>1. CASE q <= p
      <4>1. Need(q) <= Need(p) /\ (p = 1 => Need(p) = Latency)
        BY <3>1, <1>5, NeedOfOne
      <4>2. elapsed' + 4 * Latency + Need(q) + 2 * Turn <= Budget(faults') + waited'
        BY <2>1, <3>1, <4>1, <1>1, <1>3, <1>5, <1>6, Sizes
      <4>3. QED
        BY <1>9, <2>3, <4>2 DEF OnTime, Detour, Waiting, q
    <3>2. CASE Late
      <4>1. PICK m \in network : m.age < waited
        BY <3>2 DEF Late
      <4>2. m.age \in Nat
        BY DEF Typed
      <4>3. \A type : ~ OnItsWay(type)
        BY <1>1, <4>1, <4>2, Sizes DEF OnItsWay
      <4>4. elapsed + 4 * Latency + Need(p) + 2 * Turn <= Budget(faults) + waited
        BY <1>9, <3>2, <4>1, <4>3 DEF OnTime, Straight, Detour, Waiting, Silent, p
      <4>5. elapsed' + 4 * Latency + Need(q) + 2 * Turn <= Budget(faults') + waited'
        BY <4>4, <1>1, <1>3, <1>5, <1>6, Sizes
      <4>6. QED
        BY <1>9, <2>3, <4>5 DEF OnTime, Detour, Waiting, q
    <3>3. QED
      BY <1>4, <2>3, <3>1, <3>2
  <2>4. CASE ~ Late' /\ ~ Silent'
    <3>1. /\ elapsed' + 2 * Latency + Need(q) + Turn + Extra' <= Budget(faults') + waited'
          /\ elapsed' + Latency + Need(q) + Turn + Extra' <= Budget(faults')
      <4>1. p = 1 => Need(p) = Latency
        BY NeedOfOne
      <4>2. QED
        BY <2>1, <4>1, <1>1, <1>3, <1>5, <1>6, <1>7, Sizes
    <3>2. QED
      BY <1>9, <2>4, <3>1 DEF OnTime, Detour, Waiting, q
  <2>5. QED
    BY <2>2, <2>3, <2>4
<1>10. QED
  BY <1>8, <1>9

\* Lemmas about the parts of the steps

\* What the one server answers, unless it is deaf.
LEMMA OneAnswer ==
  ASSUME NEW s \in Servers, running = {s}, Counted, NEW id, NEW message, NEW type,
         Send(message, id), Heard(s, message, id) = {Answer(s, type, id)}
  PROVE  /\ faults' \in 0 .. MaxFaults
         /\ \/ faults' = faults /\ network' = network \cup {[answer |-> Answer(s, type, id), age |-> 0]}
            \/ faults' = faults + 1 /\ network' = network
<1>1. PICK deaf \in SUBSET running :
        LET answers == UNION {Heard(r, message, id) : r \in running \ deaf}
        IN  /\ faults + Cardinality(deaf) <= MaxFaults
            /\ faults' = faults + Cardinality(deaf)
            /\ network' = network \cup {[answer |-> a, age |-> 0] : a \in answers}
  BY DEF Send
<1> DEFINE answers == UNION {Heard(r, message, id) : r \in running \ deaf}
<1>2. faults \in 0 .. MaxFaults /\ MaxFaults \in Nat
  BY Sizes DEF Counted
<1>3. CASE deaf = {}
  <2>1. Cardinality(deaf) = 0
    BY <1>3, FS_EmptySet
  <2>2. answers = {Answer(s, type, id)}
    BY <1>3
  <2> HIDE DEF answers
  <2>3. network' = network \cup {[answer |-> a, age |-> 0] : a \in answers}
    BY <1>1 DEF answers
  <2>4. {[answer |-> a, age |-> 0] : a \in answers} = {[answer |-> Answer(s, type, id), age |-> 0]}
    BY <2>2
  <2>5. QED
    BY <1>1, <1>2, <2>1, <2>3, <2>4
<1>4. CASE deaf = {s}
  <2>1. Cardinality(deaf) = 1
    BY <1>4, FS_Singleton
  <2>2. answers = {}
    BY <1>4
  <2> HIDE DEF answers
  <2>3. network' = network \cup {[answer |-> a, age |-> 0] : a \in answers}
    BY <1>1 DEF answers
  <2>4. network' = network
    BY <2>2, <2>3
  <2>5. QED
    BY <1>1, <1>2, <2>1, <2>4
<1>5. QED
  BY <1>3, <1>4

\* One more answer on its way.
LEMMA Answered ==
  ASSUME Counted, NEW a, network' = network \cup {[answer |-> a, age |-> 0]} \/ network' = network
  PROVE  /\ IsFiniteSet(network') /\ \A m \in network' : m.age <= Latency
         /\ Cardinality(network) \in Nat /\ Cardinality(network') <= Cardinality(network) + 1
         /\ network' = network => Cardinality(network') = Cardinality(network)
<1>1. IsFiniteSet(network) /\ Cardinality(network) \in Nat
  BY FS_CardinalityType DEF Counted
<1>2. \A m \in network' : m.age <= Latency
  BY Sizes DEF Counted
<1>3. QED
  BY <1>1, <1>2, FS_AddElement

\* The packet that is read.
LEMMA PacketRead ==
  ASSUME Typed, NEW s \in Servers, OnlyFrom(s), NEW packet, NextPacket(packet)
  PROVE  packet \in Answers /\ FromServer(packet, s) /\ Len(received) >= 1
         /\ Len(received) \in Nat /\ ~ Silent
<1>1. received \in Seq(Answers) /\ received # <<>> /\ packet = Head(received)
  BY DEF Typed, NextPacket
<1>2. Len(received) >= 1 /\ Head(received) = received[1] /\ 1 \in 1 .. Len(received)
  BY <1>1
<1>3. QED
  BY <1>1, <1>2, ElementOfSeq DEF OnlyFrom, Silent

\* If it is the only one about, it is the answer that the client waits for.
LEMMA PacketExpected ==
  ASSUME NEW packet, NextPacket(packet), NEW type, OnItsWay(type)
  PROVE  Expected(packet, type) /\ network = {} /\ waited <= Latency
BY DEF NextPacket, OnItsWay

LEMMA ServerKept ==
  ASSUME Typed, NEW s \in Servers, OnlyFrom(s), NEW packet, NextPacket(packet), Flush, Parse(packet),
         network' = network
  PROVE  OnlyFrom(s)'
<1>1. FromServer(packet, s)
  BY PacketRead
<1>2. serverIp' \in {NoAddress, s}
  BY <1>1 DEF Parse, ServerIp, Accepts, FromServer, OnlyFrom
<1>3. QED
  BY <1>2, EmptySeq DEF OnlyFrom, Flush, FromServer

-----------------------------------------------------------------------------
(* The steps of a client with one server                                   *)

LEMMA BeginInTime ==
  ASSUME IInv, Counted, NEW s \in Servers, Alone(s), Begin PROVE Counted' /\ Alone(s)'
<1>1. dhcp_state = "begin" /\ dhcp_state' \in {"start", "no socket"}
      /\ UNCHANGED <<serverIp, elapsed, waited, received, network, running, faults>>
  BY DEF Begin, Listen, clock
<1>2. Counted'
  BY <1>1 DEF Counted
<1>3. OnlyFrom(s)' /\ running' = {s}
  BY <1>1 DEF Alone, OnlyFrom, FromServer
<1>4. Silent /\ elapsed + 2 * Latency <= Budget(faults)
  BY <1>1 DEF Alone, OnTime, Straight, Detour, Waiting
<1>5. OnTime'
  BY <1>1, <1>4 DEF OnTime, Straight, Silent
<1>6. QED
  BY <1>2, <1>3, <1>5 DEF Alone

LEMMA NextWaitBegins ==
  ASSUME Typed', Counted', Waiting', waited' = 0,
         elapsed' + 2 * Latency + Need(Packets') + Turn + Extra' <= Budget(faults')
  PROVE  OnTime'
<1>1. (Typed /\ Counted /\ Ready => OnTime)'
  BY WaitBegins, PTL
<1>2. QED
  BY <1>1 DEF Ready

LEMMA StartInTime ==
  ASSUME IInv, Patient, Counted, NEW s \in Servers, Alone(s), Start, IInv'
  PROVE  Counted' /\ Alone(s)'
<1> DEFINE a == Answer(s, "offer", xid + 1)
<1>1. /\ dhcp_state = "start" /\ dhcp_state' = "discover"
      /\ UNCHANGED <<serverIp, elapsed, received, running>>
      /\ xid' = xid + 1 /\ waited' = 0
  <2>1. dhcp_state = "start" /\ OnTime /\ Typed
    BY DEF Start, IInv, Alone
  <2>2. elapsed <= Timeout /\ elapsed \in Nat /\ Timeout \in Nat
    BY <2>1, NotYetOver, Sizes DEF Counted
  <2>3. ~ (elapsed > Timeout)
    BY <2>2
  <2>4. QED
    BY <2>3 DEF Start, Continue
<1>2. Typed /\ Typed' /\ OnlyFrom(s) /\ OnTime /\ running = {s} /\ running' = {s}
  BY <1>1 DEF IInv, Alone
<1>3. Heard(s, Discover, xid + 1) = {a}
  BY DEF Heard, Discover
<1>4. /\ faults' \in 0 .. MaxFaults
      /\ \/ faults' = faults /\ network' = network \cup {[answer |-> a, age |-> 0]}
         \/ faults' = faults + 1 /\ network' = network
  <2>1. Send(Discover, xid + 1)
    BY DEF Start
  <2>2. QED
    BY <2>1, <1>2, <1>3, OneAnswer
<1> HIDE DEF a
<1>5. Counted' /\ Cardinality(network) \in Nat /\ Cardinality(network') <= Cardinality(network) + 1
      /\ (network' = network => Cardinality(network') = Cardinality(network))
  <2>1. /\ IsFiniteSet(network') /\ \A m \in network' : m.age <= Latency
        /\ Cardinality(network) \in Nat /\ Cardinality(network') <= Cardinality(network) + 1
        /\ network' = network => Cardinality(network') = Cardinality(network)
    BY <1>4, Answered
  <2>2. elapsed' \in Nat /\ waited' \in 0 .. Turn
    BY <1>1, Sizes DEF Counted
  <2>3. QED
    BY <2>1, <2>2, <1>4 DEF Counted
<1>6. OnlyFrom(s)'
  <2>1. FromServer(a, s)
    BY DEF FromServer, a, Answer
  <2>2. \A m \in network' : FromServer(m.answer, s)
    BY <1>2, <1>4, <2>1 DEF OnlyFrom
  <2>3. QED
    BY <1>1, <1>2, <2>2 DEF OnlyFrom
<1>7. /\ Packets \in Nat /\ Len(received) \in Nat /\ Need(Packets) \in Nat /\ elapsed \in Nat
      /\ (Silent <=> Packets = 0) /\ Packets = Cardinality(network) + Len(received)
  BY <1>2, PacketsCounted, NeedGrows DEF Counted
<1>8. /\ faults \in Nat /\ Budget(faults) \in Nat /\ Budget(faults + 1) = Budget(faults) + Cost
      /\ Cardinality(network') \in Nat
  <2>1. IsFiniteSet(network') /\ faults \in 0 .. MaxFaults
    BY <1>5 DEF Counted
  <2>2. Cardinality(network') \in Nat
    BY <2>1, FS_CardinalityType
  <2>3. QED
    BY <2>1, <2>2, BudgetGrows, Sizes
<1>9. Packets' \in Nat /\ Packets' <= Packets + 1 /\ Packets' = Cardinality(network') + Len(received)
  BY <1>1, <1>5, <1>7, <1>8 DEF Packets
<1>10. Need(Packets') <= Need(Packets) + Latency /\ Need(Packets') \in Nat
  BY <1>7, <1>9, NeedGrows
<1>11. Waiting' /\ Extra' = Latency
  BY <1>1 DEF Waiting, Extra
<1>12. ASSUME Silent, elapsed + 2 * Latency <= Budget(faults) PROVE OnTime'
  <2>1. CASE faults' = faults /\ network' = network \cup {[answer |-> a, age |-> 0]}
    <3>1. network' = {[answer |-> a, age |-> 0]} /\ received' = <<>>
      BY <1>1, <1>12, <2>1 DEF Silent
    <3>2. a.mine /\ a.type = "offer" /\ a.xid <= xid' /\ [answer |-> a, age |-> 0].age >= waited'
          /\ [answer |-> a, age |-> 0].answer = a
      BY <1>1, <1>2 DEF a, Answer, Typed
    <3>3. OnItsWay("offer")'
      BY <3>1, <3>2 DEF OnItsWay, Expected
    <3>4. elapsed' + 2 * Latency <= Budget(faults') + waited'
      BY <1>1, <1>7, <1>8, <1>12, <2>1, Sizes
    <3>5. QED
      BY <1>1, <3>3, <3>4 DEF OnTime, Straight
  <2>2. CASE faults' = faults + 1 /\ network' = network
    <3>1. Packets' = 0 /\ Need(Packets') = 0
      BY <1>1, <1>5, <1>7, <1>9, <1>12, <2>2, NeedGrows
    <3>2. elapsed + 2 * Latency + 0 + Turn + Latency <= Budget(faults + 1)
      BY <1>7, <1>8, <1>12, Sizes
    <3>3. QED
      BY <1>1, <1>2, <1>5, <1>11, <2>2, <3>1, <3>2, NextWaitBegins
  <2>3. QED
    BY <1>4, <2>1, <2>2
<1>13. ASSUME elapsed + 4 * Latency + Need(Packets) + Turn <= Budget(faults) PROVE OnTime'
  <2>1. Budget(faults') \in Nat /\ Budget(faults) <= Budget(faults')
    <3>1. CASE faults' = faults
      BY <3>1, <1>8
    <3>2. CASE faults' = faults + 1
      BY <3>2, <1>8, Sizes
    <3>3. QED
      BY <1>4, <3>1, <3>2
  <2> DEFINE n == Need(Packets')
             b == Budget(faults')
  <2>2. n <= Need(Packets) + Latency /\ n \in Nat /\ b \in Nat /\ Budget(faults) <= b
    BY <1>10, <2>1
  <2> HIDE DEF n, b
  <2>3. elapsed + 2 * Latency + n + Turn + Latency <= b
    BY <1>7, <1>8, <1>13, <2>2, Sizes
  <2>4. QED
    BY <1>1, <1>2, <1>5, <1>11, <2>3, NextWaitBegins DEF n, b
<1>14. OnTime'
  <2>1. dhcp_state = "start" /\ OnTime
    BY <1>1, <1>2
  <2>2. QED
    BY <2>1, <1>12, <1>13 DEF OnTime, Straight, Detour, Waiting
<1>15. QED
  BY <1>2, <1>5, <1>6, <1>14 DEF Alone

\* After a packet was read, what is left of a detour is shorter.
LEMMA DetourShortens ==
  ASSUME Typed, Counted, Waiting, Detour, ~ Silent, Typed', Counted', Waiting',
         elapsed' = elapsed, waited' = 0, faults' \in {faults, faults + 1},
         \/ dhcp_state = "discover" /\ dhcp_state' = "request" /\ Packets' <= Packets
         \/ dhcp_state' = dhcp_state /\ Packets' + 1 <= Packets
  PROVE  OnTime'
<1> DEFINE p == Packets
           q == Packets'
           n == Need(p)
           r == Need(q)
           b == Budget(faults)
           c == Budget(faults')
<1>1. p \in Nat /\ n \in Nat /\ elapsed \in Nat
      /\ elapsed + Latency + n + Turn + Extra <= b
  BY PacketsCounted, NeedGrows, WaitNeeds DEF Counted
<1>2. (Typed /\ Counted => Packets \in Nat)'
  BY PacketsCounted, PTL
<1>3. q \in Nat /\ r \in Nat
  BY <1>2, NeedGrows
<1>4. b \in Nat /\ c \in Nat /\ b <= c
  <2>1. faults \in Nat
    BY Sizes DEF Counted
  <2>2. b \in Nat /\ Budget(faults + 1) = b + Cost
    BY <2>1, BudgetGrows
  <2>3. CASE faults' = faults
    BY <2>2, <2>3
  <2>4. CASE faults' = faults + 1
    BY <2>2, <2>4, Sizes
  <2>5. QED
    BY <2>3, <2>4
<1>5. CASE dhcp_state = "discover" /\ dhcp_state' = "request" /\ q <= p
  <2>1. Extra = Latency /\ Extra' = 0
    BY <1>5 DEF Extra
  <2>2. r <= n
    BY <1>1, <1>3, <1>5, NeedGrows
  <2> HIDE DEF p, q, n, r, b, c
  <2>3. elapsed + 2 * Latency + r + Turn + 0 <= c
    BY <1>1, <1>3, <1>4, <2>1, <2>2, Sizes
  <2>4. QED
    BY <2>1, <2>3, NextWaitBegins DEF r, c, q
<1>6. CASE dhcp_state' = dhcp_state /\ q + 1 <= p
  <2>1. Extra' = Extra /\ Extra \in Nat
    BY <1>6, Sizes DEF Extra
  <2>2. r + Latency <= n
    <3> HIDE DEF p, q
    <3>1. q \in Nat /\ q + 1 \in Nat /\ p \in Nat /\ q + 1 <= p
      BY <1>1, <1>3, <1>6
    <3>2. Need(q + 1) = r + Latency
      BY <3>1, NeedGrows
    <3>3. Need(q + 1) <= n
      BY <3>1, NeedGrows
    <3>4. QED
      BY <3>2, <3>3
  <2> HIDE DEF p, q, n, r, b, c
  <2>3. elapsed + 2 * Latency + r + Turn + Extra <= c
    BY <1>1, <1>3, <1>4, <2>1, <2>2, Sizes
  <2>4. QED
    BY <2>1, <2>3, NextWaitBegins DEF r, c, q
<1>7. QED
  BY <1>5, <1>6

LEMMA OfferedInTime ==
  ASSUME IInv, Patient, Counted, NEW s \in Servers, Alone(s), NEW packet, Offered(packet), IInv'
  PROVE  Counted' /\ Alone(s)'
<1> DEFINE a == Answer(s, "ack", packet.xid)
<1>0. dhcp_state = "discover" /\ Typed /\ Typed' /\ OnlyFrom(s) /\ OnTime /\ running = {s}
  BY DEF Offered, IInv, Alone
<1>1. /\ dhcp_state' = "request" /\ elapsed' = elapsed /\ running' = {s} /\ received' = <<>>
      /\ xid' = packet.xid /\ waited' = 0 /\ NextPacket(packet) /\ Accepts(packet)
  <2>1. elapsed <= Timeout /\ elapsed \in Nat /\ Timeout \in Nat
    BY <1>0, NotYetOver, Sizes DEF Counted, Waiting
  <2>2. ~ (elapsed > Timeout)
    BY <2>1
  <2>3. Accepts(packet)
    BY DEF Offered, Type
  <2>4. QED
    BY <1>0, <2>2, <2>3 DEF Offered, Read, Flush, Continue
<1>2. /\ packet \in Answers /\ FromServer(packet, s) /\ Len(received) >= 1 /\ Len(received) \in Nat
      /\ ~ Silent
  BY <1>0, <1>1, PacketRead
<1>3. localIp' = s /\ serverIp' = s
  BY <1>0, <1>1, <1>2 DEF Offered, Parse, ServerIp, Accepts, FromServer, OnlyFrom
<1>4. Heard(s, Request(s, s), packet.xid) = {a}
  BY DEF Heard, Request
<1>5. /\ faults' \in 0 .. MaxFaults
      /\ \/ faults' = faults /\ network' = network \cup {[answer |-> a, age |-> 0]}
         \/ faults' = faults + 1 /\ network' = network
  <2>1. Send(Request(s, s), packet.xid)
    BY <1>3 DEF Offered
  <2>2. QED
    BY <2>1, <1>0, <1>4, OneAnswer
<1> HIDE DEF a
<1>6. Counted' /\ Cardinality(network) \in Nat /\ Cardinality(network') <= Cardinality(network) + 1
      /\ (network' = network => Cardinality(network') = Cardinality(network))
  <2>1. /\ IsFiniteSet(network') /\ \A m \in network' : m.age <= Latency
        /\ Cardinality(network) \in Nat /\ Cardinality(network') <= Cardinality(network) + 1
        /\ network' = network => Cardinality(network') = Cardinality(network)
    BY <1>5, Answered
  <2>2. elapsed' \in Nat /\ waited' \in 0 .. Turn
    BY <1>1, Sizes DEF Counted
  <2>3. QED
    BY <2>1, <2>2, <1>5 DEF Counted
<1>7. OnlyFrom(s)'
  <2>1. FromServer(a, s)
    BY DEF FromServer, a, Answer
  <2>2. \A m \in network' : FromServer(m.answer, s)
    BY <1>0, <1>5, <2>1 DEF OnlyFrom
  <2>3. QED
    BY <1>1, <1>3, <2>2, EmptySeq DEF OnlyFrom
<1>8. Packets' <= Packets
  <2>1. Packets' = Cardinality(network') + 0 /\ Packets = Cardinality(network) + Len(received)
    BY <1>1, EmptySeq DEF Packets
  <2>2. IsFiniteSet(network')
    BY <1>6 DEF Counted
  <2>3. Cardinality(network') \in Nat
    BY <2>2, FS_CardinalityType
  <2>4. QED
    BY <2>1, <2>3, <1>2, <1>6
<1>9. Waiting /\ Waiting'
  BY <1>0, <1>1 DEF Waiting
<1>10. faults \in Nat /\ Budget(faults) \in Nat /\ Budget(faults + 1) = Budget(faults) + Cost
       /\ elapsed \in Nat /\ waited \in 0 .. Turn
  BY BudgetGrows, Sizes DEF Counted
<1>11. ASSUME Detour PROVE OnTime'
  BY <1>0, <1>1, <1>2, <1>5, <1>6, <1>8, <1>9, <1>11, DetourShortens
<1>12. ASSUME OnItsWay("offer"), elapsed + 2 * Latency <= Budget(faults) + waited PROVE OnTime'
  <2>1. network = {} /\ waited <= Latency
    BY <1>1, <1>12, PacketExpected
  <2>2. elapsed + Latency <= Budget(faults)
    BY <1>10, <1>12, <2>1, Sizes
  <2>3. CASE faults' = faults /\ network' = network \cup {[answer |-> a, age |-> 0]}
    <3>1. network' = {[answer |-> a, age |-> 0]}
      BY <2>1, <2>3
    <3>2. a.mine /\ a.type = "ack" /\ a.xid <= xid' /\ [answer |-> a, age |-> 0].age >= waited'
          /\ [answer |-> a, age |-> 0].answer = a
      BY <1>0, <1>1 DEF a, Answer, Typed
    <3>3. OnItsWay("ack")'
      BY <1>1, <3>1, <3>2 DEF OnItsWay, Expected
    <3>4. elapsed' + Latency <= Budget(faults') + waited'
      BY <1>1, <1>10, <2>2, <2>3, Sizes
    <3>5. QED
      BY <1>1, <3>3, <3>4 DEF OnTime, Straight
  <2>4. CASE faults' = faults + 1 /\ network' = network
    <3>1. Silent'
      BY <1>1, <2>1, <2>4 DEF Silent
    <3>2. elapsed' + 2 * Latency + Turn <= Budget(faults') + waited'
      BY <1>1, <1>10, <2>2, <2>4, Sizes
    <3>3. QED
      BY <1>9, <3>1, <3>2 DEF OnTime, Detour
  <2>5. QED
    BY <1>5, <2>3, <2>4
<1>13. OnTime'
  <2>1. dhcp_state = "discover" /\ OnTime
    BY <1>0
  <2>2. QED
    BY <2>1, <1>11, <1>12 DEF OnTime, Straight
<1>14. QED
  BY <1>1, <1>6, <1>7, <1>13 DEF Alone

\* A packet that the client reads and does not answer.
LEMMA IgnoredInTime ==
  ASSUME IInv, Patient, Counted, NEW s \in Servers, Alone(s), NEW packet, Ignored(packet), IInv'
  PROVE  Counted' /\ Alone(s)'
<1>0. Waiting /\ Typed /\ Typed' /\ OnlyFrom(s) /\ OnTime /\ running = {s}
      /\ dhcp_state \in {"discover", "request"}
  BY DEF Ignored, Read, IInv, Alone, Waiting
<1>1. /\ dhcp_state' = dhcp_state /\ running' = {s} /\ received' = <<>> /\ waited' = 0
      /\ UNCHANGED <<elapsed, network, faults>>
      /\ Type(packet) \notin IF dhcp_state = "discover" THEN {"offer"} ELSE {"ack", "nak"}
  <2>1. elapsed <= Timeout /\ elapsed \in Nat /\ Timeout \in Nat
    BY <1>0, NotYetOver, Sizes DEF Counted
  <2>2. ~ (elapsed > Timeout)
    BY <2>1
  <2>3. QED
    BY <1>0, <2>2 DEF Ignored, Read, Flush, Continue
<1>2. NextPacket(packet) /\ Flush /\ Parse(packet)
  BY DEF Ignored, Read
<1>3. packet \in Answers /\ Len(received) >= 1 /\ Len(received) \in Nat /\ ~ Silent
  BY <1>0, <1>2, PacketRead
<1>4. Counted'
  BY <1>1, Sizes DEF Counted
<1>5. OnlyFrom(s)'
  BY <1>0, <1>1, <1>2, ServerKept
<1>6. Packets' + 1 <= Packets
  <2>1. Packets' = Cardinality(network) + 0 /\ Packets = Cardinality(network) + Len(received)
    BY <1>1, EmptySeq DEF Packets
  <2>2. Cardinality(network) \in Nat
    BY FS_CardinalityType DEF Counted
  <2>3. QED
    BY <2>1, <2>2, <1>3
<1>7. Waiting'
  BY <1>0, <1>1 DEF Waiting
<1>8. ASSUME Detour PROVE OnTime'
  BY <1>0, <1>1, <1>3, <1>4, <1>6, <1>7, <1>8, DetourShortens
<1>9. ASSUME NEW type \in {"offer", "ack"}, Type(packet) # type PROVE ~ OnItsWay(type)
  <2>1. SUFFICES ASSUME OnItsWay(type) PROVE FALSE
    OBVIOUS
  <2>2. Expected(packet, type)
    BY <1>2, <2>1, PacketExpected
  <2>3. QED
    BY <1>9, <2>2 DEF Expected, Type, Accepts
<1>10. ~ Straight
  <2>1. CASE dhcp_state = "discover"
    BY <1>1, <1>9, <2>1 DEF Straight
  <2>2. CASE dhcp_state = "request"
    BY <1>1, <1>9, <2>2 DEF Straight
  <2>3. QED
    BY <1>0, <2>1, <2>2
<1>11. OnTime'
  BY <1>0, <1>8, <1>10 DEF OnTime
<1>12. QED
  BY <1>1, <1>4, <1>5, <1>11 DEF Alone

\* The one server refuses nothing, and an acknowledgment ends the call.
LEMMA AnsweredInTime ==
  ASSUME IInv, Counted, NEW s \in Servers, Alone(s), NEW packet,
         Refused(packet) \/ Acknowledged(packet)
  PROVE  Counted' /\ Alone(s)'
<1>0. Typed /\ OnlyFrom(s) /\ running = {s} /\ NextPacket(packet)
  BY DEF Refused, Acknowledged, Read, IInv, Alone
<1>1. FromServer(packet, s)
  BY <1>0, PacketRead
<1>2. ~ Refused(packet)
  BY <1>1 DEF Refused, Type, Accepts, FromServer
<1>3. Acknowledged(packet)
  BY <1>2
<1>4. Counted'
  BY <1>3 DEF Acknowledged, Counted, clock
<1>5. OnlyFrom(s)' /\ running' = {s}
  BY <1>0, <1>3, ServerKept DEF Acknowledged
<1>6. OnTime'
  BY <1>3 DEF Acknowledged, OnTime
<1>7. QED
  BY <1>4, <1>5, <1>6 DEF Alone

\* The client starts over, with nothing about or with what was held up.
LEMMA OverdueInTime ==
  ASSUME IInv, Patient, Counted, NEW s \in Servers, Alone(s), Overdue
  PROVE  Counted' /\ Alone(s)'
<1>0. Waiting /\ Typed /\ OnlyFrom(s) /\ OnTime /\ running = {s} /\ received = <<>>
      /\ waited > ResponseTimeout /\ dhcp_state \in {"discover", "request"}
  BY DEF Overdue, Expired, IInv, Alone, Waiting
<1>1. /\ dhcp_state' = "start" /\ running' = {s}
      /\ UNCHANGED <<elapsed, waited, received, network, faults, serverIp>>
  <2>1. elapsed <= Timeout /\ elapsed \in Nat /\ Timeout \in Nat
    BY <1>0, NotYetOver, Sizes DEF Counted
  <2>2. ~ (elapsed > Timeout)
    BY <2>1
  <2>3. QED
    BY <1>0, <2>2 DEF Overdue, Continue, clock
<1>2. Counted'
  BY <1>1 DEF Counted
<1>3. OnlyFrom(s)'
  BY <1>0, <1>1 DEF OnlyFrom, FromServer
<1>4. waited = Turn /\ Turn > Latency
  BY <1>0, Sizes DEF Counted, Patient
<1>5. \A m \in network : m.age < waited
  BY <1>4, Sizes DEF Counted, IInv, Typed
<1>6. /\ Packets \in Nat /\ Need(Packets) \in Nat /\ elapsed \in Nat /\ faults \in Nat
      /\ Budget(faults) \in Nat /\ Packets' = Packets
  <2>1. Packets' = Packets
    BY <1>1 DEF Packets
  <2>2. Packets \in Nat
    BY <1>0, PacketsCounted
  <2>3. elapsed \in Nat /\ faults \in Nat
    BY Sizes DEF Counted
  <2>4. QED
    BY <2>1, <2>2, <2>3, NeedGrows, BudgetGrows
<1>7. ~ Straight
  <2>1. \A m \in network : ~ (m.age >= waited)
    BY <1>4, <1>5, Sizes DEF IInv, Typed
  <2>2. \A type : ~ OnItsWay(type)
    BY <1>4, <2>1, Sizes DEF OnItsWay
  <2>3. QED
    BY <1>0, <2>2 DEF Straight
<1>8. CASE Silent
  <2>1. elapsed + 2 * Latency + Turn <= Budget(faults) + Turn
    BY <1>0, <1>4, <1>5, <1>7, <1>8 DEF OnTime, Detour, Late, Silent
  <2>2. elapsed' + 2 * Latency <= Budget(faults')
    BY <1>1, <1>6, <2>1, Sizes
  <2>3. Silent'
    BY <1>1, <1>8 DEF Silent
  <2>4. OnTime'
    BY <1>1, <2>2, <2>3 DEF OnTime, Straight
  <2>5. QED
    BY <1>1, <1>2, <1>3, <2>4 DEF Alone
<1>9. CASE ~ Silent
  <2>1. Late
    BY <1>0, <1>5, <1>9 DEF Late, Silent
  <2> DEFINE n == Need(Packets)
  <2>2. elapsed + 4 * Latency + n + 2 * Turn <= Budget(faults) + Turn
    BY <1>0, <1>4, <1>7, <1>9, <2>1 DEF OnTime, Detour
  <2>3. n \in Nat
    BY <1>6
  <2> HIDE DEF n
  <2>4. elapsed + 4 * Latency + n + Turn <= Budget(faults)
    BY <1>6, <2>2, <2>3, Sizes
  <2>5. OnTime'
    BY <1>1, <1>6, <2>4 DEF OnTime, Detour, n
  <2>6. QED
    BY <1>1, <1>2, <1>3, <2>5 DEF Alone
<1>10. QED
  BY <1>8, <1>9

\* A tick goes by, on a way that takes so many, or in a wait that does.
LEMMA SleepInTime ==
  ASSUME IInv, Patient, Counted, NEW s \in Servers, Alone(s), Sleep, IInv'
  PROVE  Counted' /\ Alone(s)'
<1> DEFINE Older(m) == [m EXCEPT !.age = @ + 1]
<1>0. /\ Waiting /\ Typed /\ Typed' /\ OnlyFrom(s) /\ OnTime /\ running = {s} /\ received = <<>>
      /\ ~ (waited > ResponseTimeout) /\ dhcp_state \in {"discover", "request"}
      /\ \A m \in network : m.age < Latency
  BY DEF Sleep, Expired, IInv, Alone, Waiting
<1>1. /\ dhcp_state' = dhcp_state /\ running' = {s} /\ received' = <<>>
      /\ UNCHANGED <<faults, serverIp, xid>>
      /\ network' = {Older(m) : m \in network}
  BY <1>0 DEF Sleep, client
<1>2. elapsed \in Nat /\ elapsed' = elapsed + 1
  <2>1. elapsed <= Timeout /\ elapsed \in Nat /\ Timeout \in Nat
    BY <1>0, NotYetOver, Sizes DEF Counted
  <2>2. Min({elapsed, Timeout}) = elapsed
    BY <2>1, MinOfTwo
  <2>3. QED
    BY <2>1, <2>2 DEF Sleep
<1>3. waited \in Nat /\ waited' = waited + 1 /\ waited' <= Turn
  <2>1. waited \in Nat /\ waited <= ResponseTimeout
    BY <1>0, Sizes DEF Counted
  <2>2. Min({waited, ResponseTimeout}) = waited
    BY <2>1, MinOfTwo, Sizes
  <2>3. QED
    BY <2>1, <2>2, Sizes DEF Sleep
<1>4. \A m \in network : m.age \in Nat /\ Older(m).age = m.age + 1 /\ Older(m).answer = m.answer
  BY <1>0 DEF Typed
<1>5. IsFiniteSet(network') /\ Cardinality(network') <= Cardinality(network)
  <2> DEFINE f == [m \in network |-> Older(m)]
  <2>1. f \in Surjection(network, network')
    BY <1>1 DEF Surjection
  <2>2. IsFiniteSet(network)
    BY DEF Counted
  <2> HIDE DEF f
  <2>3. QED
    BY <2>1, <2>2, FS_Surjection
<1>6. Counted'
  <2>1. \A m \in network' : m.age <= Latency
    <3>1. SUFFICES ASSUME NEW m \in network PROVE Older(m).age <= Latency
      BY <1>1
    <3>2. m.age \in Nat /\ m.age < Latency /\ Older(m).age = m.age + 1
      BY <1>0, <1>4
    <3> HIDE DEF Older
    <3>3. QED
      BY <3>2, Sizes
  <2>2. faults' \in 0 .. MaxFaults
    BY <1>1 DEF Counted
  <2>3. QED
    BY <1>2, <1>3, <1>5, <2>1, <2>2, Sizes DEF Counted
<1>7. OnlyFrom(s)'
  <2>1. \A m \in network' : FromServer(m.answer, s)
    BY <1>0, <1>1, <1>4 DEF OnlyFrom
  <2>2. QED
    BY <1>0, <1>1, <2>1, EmptySeq DEF OnlyFrom
<1>8. /\ Waiting' /\ Extra' = Extra
      /\ network' = {} <=> network = {}
  BY <1>0, <1>1 DEF Waiting, Extra
<1>9. Silent' <=> Silent
  BY <1>0, <1>1, <1>8 DEF Silent
<1>10. Late' <=> Late
  <2>1. \A m \in network : Older(m).age < waited' <=> m.age < waited
    BY <1>3, <1>4
  <2>2. QED
    BY <1>1, <2>1 DEF Late
<1> DEFINE p == Packets
           q == Packets'
           n == Need(p)
           r == Need(q)
           b == Budget(faults)
<1>11. n \in Nat /\ r \in Nat /\ r <= n
  <2>1. p \in Nat /\ Cardinality(network) \in Nat
    BY <1>0, PacketsCounted
  <2>2. (Typed /\ Counted => Packets \in Nat)'
    BY PacketsCounted, PTL
  <2>3. q \in Nat
    BY <1>0, <1>6, <2>2
  <2>4. IsFiniteSet(network')
    BY <1>5
  <2>5. Cardinality(network') \in Nat
    BY <2>4, FS_CardinalityType
  <2>6. q <= p
    BY <1>0, <1>1, <1>5, <2>1, <2>5, EmptySeq DEF Packets
  <2>7. QED
    BY <2>1, <2>3, <2>6, NeedGrows
<1>12. b \in Nat /\ Budget(faults') = b /\ Extra \in Nat
  BY <1>1, BudgetGrows, Sizes DEF Counted, Extra
<1> HIDE DEF p, q, n, r, b
<1>13. ASSUME NEW type, OnItsWay(type) PROVE OnItsWay(type)'
  <2>1. PICK m \in network : network = {m} /\ m.age >= waited /\ Expected(m.answer, type)
    BY <1>0, <1>13, EmptySeq DEF OnItsWay
  <2>2. network' = {Older(m)} /\ Older(m).age >= waited' /\ Older(m).answer = m.answer
    BY <1>1, <1>3, <1>4, <2>1
  <2>3. m.answer.mine /\ m.answer.type = type /\ m.answer.xid <= xid'
    BY <1>1, <2>1 DEF Expected
  <2> HIDE DEF Older
  <2>4. QED
    BY <1>1, <2>2, <2>3 DEF OnItsWay, Expected
<1>14. ASSUME Straight PROVE OnTime'
  <2>1. CASE dhcp_state = "discover"
    <3>1. OnItsWay("offer") /\ elapsed + 2 * Latency <= b + waited
      BY <1>14, <2>1 DEF Straight, b
    <3>2. elapsed' + 2 * Latency <= b + waited'
      BY <1>2, <1>3, <1>12, <3>1, Sizes
    <3>3. QED
      BY <1>1, <1>12, <1>13, <2>1, <3>1, <3>2 DEF OnTime, Straight
  <2>2. CASE dhcp_state = "request"
    <3>1. OnItsWay("ack") /\ elapsed + Latency <= b + waited
      BY <1>14, <2>2 DEF Straight, b
    <3>2. elapsed' + Latency <= b + waited'
      BY <1>2, <1>3, <1>12, <3>1, Sizes
    <3>3. QED
      BY <1>1, <1>12, <1>13, <2>2, <3>1, <3>2 DEF OnTime, Straight
  <2>3. QED
    BY <1>0, <2>1, <2>2
<1>15. ASSUME Waiting, Silent, elapsed + 2 * Latency + Turn <= b + waited PROVE OnTime'
  <2>1. elapsed' + 2 * Latency + Turn <= b + waited'
    BY <1>2, <1>3, <1>12, <1>15, Sizes
  <2>2. QED
    BY <1>8, <1>9, <1>12, <1>15, <2>1 DEF OnTime, Detour
<1>16. ASSUME Waiting, Late, elapsed + 4 * Latency + n + 2 * Turn <= b + waited
      PROVE  OnTime'
  <2>1. elapsed' + 4 * Latency + r + 2 * Turn <= b + waited'
    BY <1>2, <1>3, <1>11, <1>12, <1>16, Sizes
  <2>2. QED
    BY <1>8, <1>10, <1>12, <1>16, <2>1 DEF OnTime, Detour, r, q
<1>17. ASSUME Waiting, ~ Late, ~ Silent,
              elapsed + 2 * Latency + n + Turn + Extra <= b + waited,
              elapsed + Latency + n + Turn + Extra <= b
       PROVE  OnTime'
  <2>1. waited < Latency
    <3>1. PICK m \in network : ~ (m.age < waited)
      BY <1>0, <1>17 DEF Silent, Late
    <3>2. QED
      BY <1>0, <1>3, <1>4, <3>1, Sizes
  <2>2. elapsed' + 2 * Latency + r + Turn + Extra <= b + waited'
    BY <1>2, <1>3, <1>11, <1>12, <1>17, Sizes
  <2>3. elapsed' + Latency + r + Turn + Extra <= b
    BY <1>2, <1>3, <1>11, <1>12, <1>17, <2>1, Sizes
  <2>4. QED
    BY <1>8, <1>9, <1>10, <1>12, <1>17, <2>2, <2>3 DEF OnTime, Detour, r, q
<1>18. OnTime'
  <2>1. dhcp_state \in {"discover", "request"} /\ OnTime
    BY <1>0
  <2>2. QED
    BY <2>1, <1>14, <1>15, <1>16, <1>17 DEF OnTime, Detour, n, p, b
<1>19. QED
  BY <1>1, <1>6, <1>7, <1>18 DEF Alone

-----------------------------------------------------------------------------
(* The steps of the network with one server                                *)

\* One packet more in the receive buffer.
LEMMA Received ==
  ASSUME Typed, NEW s \in Servers, OnlyFrom(s), NEW a \in Answers, FromServer(a, s),
         received' = Append(received, a)
  PROVE  /\ Len(received') = Len(received) + 1 /\ Len(received) \in Nat
         /\ \A i \in 1 .. Len(received') : FromServer(received'[i], s)
         /\ received = <<>> => received' = <<a>>
<1>1. received \in Seq(Answers)
  BY DEF Typed
<1>2. /\ Len(received') = Len(received) + 1 /\ Len(received) \in Nat
      /\ \A i \in 1 .. Len(received) : received'[i] = received[i]
      /\ received'[Len(received) + 1] = a
  BY <1>1, AppendProperties
<1>3. \A i \in 1 .. Len(received') : FromServer(received'[i], s)
  <2>1. SUFFICES ASSUME NEW i \in 1 .. Len(received) + 1 PROVE FromServer(received'[i], s)
    BY <1>2
  <2>2. CASE i \in 1 .. Len(received)
    BY <1>2, <2>2 DEF OnlyFrom
  <2>3. CASE i = Len(received) + 1
    BY <1>2, <2>3
  <2>4. QED
    BY <1>2, <2>1, <2>2, <2>3
<1>4. received = <<>> => received' = <<a>>
  OBVIOUS
<1>5. QED
  BY <1>2, <1>3, <1>4

LEMMA ArriveInTime ==
  ASSUME IInv, Counted, NEW s \in Servers, Alone(s), Arrive, IInv'
  PROVE  Counted' /\ Alone(s)'
<1>0. Typed /\ Typed' /\ OnlyFrom(s) /\ OnTime /\ running = {s}
      /\ dhcp_state \in {"start", "discover", "request"}
      /\ UNCHANGED <<dhcp_state, serverIp, xid, elapsed, waited, running, faults>>
  BY DEF Arrive, Working, IInv, Alone, client, clock
<1>1. PICK m \in network : received' = Append(received, m.answer) /\ network' = network \ {m}
  BY DEF Arrive
<1>2. m.answer \in Answers /\ m.age \in Nat /\ m.age <= Latency /\ FromServer(m.answer, s)
  BY <1>0 DEF Typed, Counted, OnlyFrom
<1>3. /\ Len(received') = Len(received) + 1 /\ Len(received) \in Nat
      /\ \A i \in 1 .. Len(received') : FromServer(received'[i], s)
      /\ received = <<>> => received' = <<m.answer>>
  BY <1>0, <1>1, <1>2, Received
<1>4. /\ IsFiniteSet(network') /\ Cardinality(network') = Cardinality(network) - 1
      /\ Cardinality(network) \in Nat
  BY <1>1, FS_RemoveElement, FS_CardinalityType DEF Counted
<1>5. Counted'
  BY <1>0, <1>1, <1>4 DEF Counted
<1>6. OnlyFrom(s)'
  BY <1>0, <1>1, <1>3 DEF OnlyFrom
<1>7. Packets' = Packets
  BY <1>3, <1>4 DEF Packets
<1>8. ~ Silent /\ ~ Silent'
  <2>1. received' # <<>>
    BY <1>3, EmptySeq
  <2>2. QED
    BY <1>1, <2>1 DEF Silent
<1>9. /\ Waiting' <=> Waiting
      /\ Extra' = Extra /\ Extra \in {0, Latency}
  BY <1>0 DEF Waiting, Extra
<1>10. (Late' => Late) /\ waited \in 0 .. Turn
  BY <1>0, <1>1 DEF Late, Counted
<1>11. ASSUME NEW type, OnItsWay(type) PROVE OnItsWay(type)'
  <2>1. received = <<>> /\ network = {m} /\ m.age >= waited /\ Expected(m.answer, type)
    BY <1>1, <1>11 DEF OnItsWay
  <2>2. received' = <<m.answer>> /\ network' = {}
    BY <1>1, <1>3, <2>1
  <2>3. waited' <= Latency
    BY <1>0, <1>2, <1>10, <2>1, Sizes
  <2>4. m.answer.mine /\ m.answer.type = type /\ m.answer.xid <= xid'
    BY <1>0, <2>1 DEF Expected
  <2>5. QED
    BY <1>2, <2>2, <2>3, <2>4 DEF OnItsWay, Expected
<1>12. ASSUME Straight PROVE OnTime'
  BY <1>0, <1>8, <1>11, <1>12 DEF Straight, OnTime
<1>13. ASSUME Detour PROVE OnTime'
  <2>1. CASE dhcp_state = "start"
    BY <1>0, <1>7, <1>13, <2>1 DEF OnTime, Detour, Waiting
  <2>2. CASE Waiting /\ (Late' \/ ~ Late)
    <3>1. Late' => Late
      BY <1>10
    <3>2. dhcp_state # "start"
      BY <2>2 DEF Waiting
    <3>3. \/ Late' /\ elapsed' + 4 * Latency + Need(Packets') + 2 * Turn <= Budget(faults') + waited'
          \/ /\ ~ Late'
             /\ elapsed' + 2 * Latency + Need(Packets') + Turn + Extra' <= Budget(faults') + waited'
             /\ elapsed' + Latency + Need(Packets') + Turn + Extra' <= Budget(faults')
      BY <1>0, <1>7, <1>8, <1>9, <1>10, <1>13, <2>2, <3>2 DEF Detour
    <3>4. QED
      BY <1>8, <1>9, <2>2, <3>3 DEF OnTime, Detour
  <2>3. CASE Waiting /\ ~ Late' /\ Late
    <3>1. elapsed + 4 * Latency + Need(Packets) + 2 * Turn <= Budget(faults) + waited
      BY <1>8, <1>13, <2>3 DEF Detour, Waiting
    <3> DEFINE n == Need(Packets)
               b == Budget(faults)
    <3>2. n \in Nat /\ b \in Nat /\ elapsed \in Nat
      <4>1. Packets \in Nat
        BY <1>0, PacketsCounted
      <4>2. faults \in Nat /\ elapsed \in Nat
        BY Sizes DEF Counted
      <4>3. QED
        BY <4>1, <4>2, NeedGrows, BudgetGrows
    <3>3. elapsed + 4 * Latency + n + 2 * Turn <= b + waited
      BY <3>1
    <3> HIDE DEF n, b
    <3>4. /\ elapsed + 2 * Latency + n + Turn + Extra <= b + waited
          /\ elapsed + Latency + n + Turn + Extra <= b
      BY <1>9, <1>10, <3>2, <3>3, Sizes
    <3>5. QED
      BY <1>0, <1>7, <1>8, <1>9, <2>3, <3>4 DEF OnTime, Detour, n, b
  <2>4. QED
    BY <1>0, <2>1, <2>2, <2>3 DEF Waiting
<1>14. OnTime'
  BY <1>0, <1>12, <1>13 DEF OnTime
<1>15. QED
  BY <1>0, <1>5, <1>6, <1>14 DEF Alone

\* What goes wrong is accounted for.
LEMMA FaultInTime ==
  ASSUME IInv, Counted, NEW s \in Servers, Alone(s), Lose \/ Repeat \/ Overhear \/ Delay, IInv'
  PROVE  Counted' /\ Alone(s)'
<1>0. Typed /\ Typed' /\ OnlyFrom(s) /\ OnTime /\ running = {s}
      /\ dhcp_state \in {"start", "discover", "request"} /\ faults < MaxFaults
      /\ UNCHANGED <<dhcp_state, serverIp, elapsed, waited, running>> /\ faults' = faults + 1
  BY DEF Lose, Repeat, Overhear, Delay, Working, IInv, Alone, client, clock
<1>1. faults' \in 0 .. MaxFaults /\ elapsed' \in Nat /\ waited' \in 0 .. Turn
  BY <1>0, Sizes DEF Counted
<1>2. Cardinality(network) \in Nat /\ IsFiniteSet(network) /\ Len(received) \in Nat
      /\ \A m \in network : m.answer \in Answers /\ FromServer(m.answer, s) /\ m.age <= Latency
  BY <1>0, PacketsCounted DEF Typed, Counted, OnlyFrom
<1>3. dhcp_state = "start" \/ Waiting
  BY <1>0 DEF Waiting
<1>4. CASE Lose
  <2>1. PICK m \in network : network' = network \ {m} /\ received' = received
    BY <1>4 DEF Lose
  <2>2. IsFiniteSet(network') /\ Cardinality(network') = Cardinality(network) - 1
    BY <1>2, <2>1, FS_RemoveElement
  <2>3. Counted' /\ OnlyFrom(s)'
    BY <1>0, <1>1, <2>1, <2>2 DEF Counted, OnlyFrom
  <2>4. Packets' <= Packets
    BY <1>2, <2>1, <2>2 DEF Packets
  <2>5. OnTime'
    BY <1>0, <1>3, <2>3, <2>4, FaultCosts
  <2>6. QED
    BY <1>0, <2>3, <2>5 DEF Alone
<1>5. ASSUME NEW a \in Answers, FromServer(a, s), received' = Append(received, a), network' = network
      PROVE  Counted' /\ Alone(s)'
  <2>1. Len(received') = Len(received) + 1 /\ \A i \in 1 .. Len(received') : FromServer(received'[i], s)
    BY <1>0, <1>5, Received
  <2>2. Counted' /\ OnlyFrom(s)'
    BY <1>0, <1>1, <1>2, <1>5, <2>1 DEF Counted, OnlyFrom
  <2>3. Packets' = Packets + 1
    BY <1>2, <1>5, <2>1 DEF Packets
  <2>4. Packets \in Nat
    BY <1>0, PacketsCounted
  <2>5. Late' => Late
    BY <1>0, <1>5 DEF Late
  <2>6. OnTime'
    BY <1>0, <1>3, <2>2, <2>3, <2>4, <2>5, FaultCosts
  <2>7. QED
    BY <1>0, <2>2, <2>6 DEF Alone
<1>6. CASE Repeat
  <2>1. PICK m \in network : received' = Append(received, m.answer) /\ network' = network
    BY <1>6 DEF Repeat
  <2>2. QED
    BY <1>2, <1>5, <2>1
<1>7. CASE Overhear
  <2>1. PICK r \in Servers, id \in 0 .. xid :
          received' = Append(received, [from |-> r, type |-> "ack", xid |-> id, mine |-> FALSE,
                                        ip |-> Foreign])
    BY <1>7 DEF Overhear
  <2> DEFINE a == [from |-> r, type |-> "ack", xid |-> id, mine |-> FALSE, ip |-> Foreign]
  <2>2. a \in Answers /\ FromServer(a, s)
    BY DEF Answers, FromServer
  <2>3. network' = network
    BY <1>7 DEF Overhear
  <2> HIDE DEF a
  <2>4. received' = Append(received, a)
    BY <2>1 DEF a
  <2>5. QED
    BY <1>5, <2>2, <2>3, <2>4
<1>8. CASE Delay
  <2>1. PICK m \in network : network' = (network \ {m}) \cup {[m EXCEPT !.age = 0]}
                             /\ received' = received
    BY <1>8 DEF Delay
  <2>2. m \in [answer : Answers, age : Nat]
    BY <1>0 DEF Typed
  <2> DEFINE d == [m EXCEPT !.age = 0]
  <2>3. d.age = 0 /\ d.answer = m.answer
    BY <2>2
  <2> HIDE DEF d
  <2>4. network' = (network \ {m}) \cup {d}
    BY <2>1 DEF d
  <2>5. IsFiniteSet(network \ {m}) /\ Cardinality(network \ {m}) = Cardinality(network) - 1
    BY <1>2, FS_RemoveElement
  <2>6. IsFiniteSet(network') /\ Cardinality(network') <= Cardinality(network)
    <3> DEFINE rest == network \ {m}
    <3>1. IsFiniteSet(rest) /\ Cardinality(rest) = Cardinality(network) - 1
      BY <2>5
    <3> HIDE DEF rest
    <3>2. network' = rest \cup {d}
      BY <2>4 DEF rest
    <3>3. Cardinality(network') \in {Cardinality(rest), Cardinality(rest) + 1} /\ IsFiniteSet(network')
      BY <3>1, <3>2, FS_AddElement
    <3>4. QED
      BY <1>2, <3>1, <3>3
  <2>7. \A n \in network' : n.age <= Latency /\ FromServer(n.answer, s)
    BY <1>2, <2>3, <2>4, Sizes
  <2>8. Counted' /\ OnlyFrom(s)'
    BY <1>0, <1>1, <2>1, <2>6, <2>7 DEF Counted, OnlyFrom
  <2>9. Packets' <= Packets
    <3>1. Cardinality(network') \in Nat
      BY <2>6, FS_CardinalityType
    <3>2. QED
      BY <1>2, <2>1, <2>6, <3>1 DEF Packets
  <2>10. OnTime'
    BY <1>0, <1>3, <2>8, <2>9, FaultCosts
  <2>11. QED
    BY <1>0, <2>8, <2>10 DEF Alone
<1>9. QED
  BY <1>4, <1>6, <1>7, <1>8

-----------------------------------------------------------------------------
(* Several servers, when nothing goes wrong and none is slower: all offers *)
(* are there after a tick, the client takes one and drops or ignores the   *)
(* others before the acknowledgment comes.                                 *)

Offer(a) == a.mine /\ a.type = "offer" /\ a.xid <= xid /\ a.ip = a.from /\ a.from \in running

Offering ==
  /\ dhcp_state = "discover" /\ serverIp = NoAddress
  /\ elapsed \in {0, 1} /\ waited = elapsed /\ ~ Silent
  /\ elapsed = 0 => received = <<>>
  /\ \A m \in network : m.age = elapsed /\ Offer(m.answer)
  /\ \A i \in 1 .. Len(received) : Offer(received[i])

Requesting ==
  /\ dhcp_state = "request" /\ elapsed = 1 /\ waited = 0
  /\ \E m \in network : /\ m.age = 0 /\ Expected(m.answer, "ack")
                        /\ \A n \in network \ {m} : n.age = 1 /\ n.answer.type = "offer"
  /\ \A i \in 1 .. Len(received) : received[i].type = "offer"

Acknowledging == dhcp_state = "request" /\ elapsed = 2 /\ waited = 1 /\ OnItsWay("ack")

Brisk ==
  \/ dhcp_state \in {"no socket", "leased"}
  \/ dhcp_state \in {"begin", "start"} /\ Silent /\ elapsed = 0 /\ serverIp = NoAddress
  \/ Offering \/ Requesting \/ Acknowledging

Undisturbed == Latency = 1 /\ faults = 0 /\ running # {} => Brisk

\* When nothing goes wrong, every server answers.
LEMMA AllAnswer ==
  ASSUME Typed, NEW id, NEW message, Send(message, id), faults = 0, faults' = 0
  PROVE  network' = network \cup {[answer |-> a, age |-> 0] :
                                    a \in UNION {Heard(s, message, id) : s \in running}}
<1>1. PICK deaf \in SUBSET running :
        LET answers == UNION {Heard(r, message, id) : r \in running \ deaf}
        IN  /\ faults' = faults + Cardinality(deaf)
            /\ network' = network \cup {[answer |-> a, age |-> 0] : a \in answers}
  BY DEF Send
<1>2. IsFiniteSet(deaf) /\ Cardinality(deaf) \in Nat
  <2>1. deaf \in SUBSET Servers /\ IsFiniteSet(Servers)
    BY DhcpAssumption DEF Typed
  <2>2. IsFiniteSet(deaf)
    BY <2>1, FS_Subset
  <2>3. QED
    BY <2>2, FS_CardinalityType
<1>3. Cardinality(deaf) = 0
  BY <1>1, <1>2
<1>4. deaf = {}
  BY <1>2, <1>3, FS_EmptySet
<1>5. QED
  BY <1>1, <1>4

\* What the client reads.
LEMMA HeadRead ==
  ASSUME Typed, NEW packet, NextPacket(packet)
  PROVE  packet \in Answers /\ 1 \in 1 .. Len(received) /\ packet = received[1] /\ received # <<>>
<1>1. received \in Seq(Answers) /\ received # <<>> /\ packet = Head(received)
  BY DEF Typed, NextPacket
<1>2. Len(received) >= 1 /\ Head(received) = received[1] /\ 1 \in 1 .. Len(received)
  BY <1>1
<1>3. QED
  BY <1>1, <1>2, ElementOfSeq

LEMMA StartBrisk ==
  ASSUME IInv, Patient, Brisk, Latency = 1, faults = 0, faults' = 0, running # {}, Start
  PROVE  Brisk'
<1>1. dhcp_state = "start" /\ Silent /\ elapsed = 0 /\ serverIp = NoAddress
      /\ UNCHANGED <<elapsed, serverIp, received, running>> /\ waited' = 0 /\ xid' = xid + 1
      /\ xid \in Nat
  BY DEF Start, Brisk, Offering, Requesting, Acknowledging, IInv, Typed
<1>2. dhcp_state' = "discover"
  <2>1. ~ (0 > Timeout)
    BY Sizes
  <2>2. QED
    BY <1>1, <2>1 DEF Start, Continue
<1> DEFINE answers == UNION {Heard(s, Discover, xid + 1) : s \in running}
<1>3. network' = {[answer |-> a, age |-> 0] : a \in answers}
  <2>1. Typed /\ Send(Discover, xid + 1) /\ network = {}
    BY <1>1 DEF IInv, Start, Silent
  <2>2. network' = network \cup {[answer |-> a, age |-> 0] :
                                    a \in UNION {Heard(s, Discover, xid + 1) : s \in running}}
    BY <2>1, AllAnswer
  <2>3. QED
    BY <2>1, <2>2
<1>4. answers = {Answer(s, "offer", xid + 1) : s \in running}
  BY DEF Heard, Discover
<1> HIDE DEF answers
<1>5. answers # {}
  BY <1>4
<1>6. \A a \in answers : a.mine /\ a.type = "offer" /\ a.xid <= xid' /\ a.ip = a.from /\ a.from \in running'
  <2>1. SUFFICES ASSUME NEW s \in running
        PROVE LET a == Answer(s, "offer", xid + 1)
              IN  a.mine /\ a.type = "offer" /\ a.xid <= xid + 1 /\ a.ip = a.from /\ a.from \in running
    BY <1>1, <1>4
  <2>2. QED
    BY <1>1 DEF Answer
<1>7. \A m \in network' : m.age = 0 /\ m.answer \in answers
  BY <1>3
<1>8. network' # {} /\ received' = <<>>
  BY <1>1, <1>3, <1>5 DEF Silent
<1>9. Offering'
  BY <1>1, <1>2, <1>6, <1>7, <1>8, EmptySeq DEF Offering, Offer, Silent
<1>10. QED
  BY <1>9 DEF Brisk

LEMMA OfferedBrisk ==
  ASSUME IInv, Patient, Brisk, Latency = 1, faults = 0, faults' = 0,
         NEW packet, Offered(packet)
  PROVE  Brisk'
<1>1. Offering /\ Typed
  BY DEF Offered, Brisk, Requesting, Acknowledging, IInv
<1>2. /\ UNCHANGED <<elapsed, running>> /\ received' = <<>> /\ waited' = 0 /\ NextPacket(packet)
      /\ xid' = packet.xid
  BY DEF Offered, Read, Flush
<1>3. packet \in Answers /\ Offer(packet) /\ received # <<>>
  BY <1>1, <1>2, HeadRead DEF Offering
<1>4. elapsed = 1 /\ \A m \in network : m.age = 1 /\ m.answer.type = "offer"
  BY <1>1, <1>3 DEF Offering, Offer
<1>5. dhcp_state' = "request"
  <2>1. ~ (1 > Timeout)
    BY Sizes DEF Patient
  <2>2. QED
    BY <1>4, <2>1 DEF Offered, Continue
<1> DEFINE s == packet.from
           a == Answer(s, "ack", packet.xid)
           n == [answer |-> a, age |-> 0]
<1>6. localIp' = s /\ serverIp' = s /\ s \in running
  BY <1>1, <1>3 DEF Offered, Parse, Accepts, ServerIp, Offer, Offering
<1>7. UNION {Heard(r, Request(s, s), packet.xid) : r \in running} = {a}
  BY <1>6 DEF Heard, Request
<1>8. network' = network \cup {n}
  <2>1. Send(Request(s, s), packet.xid)
    BY <1>6 DEF Offered
  <2>2. network' = network \cup {[answer |-> b, age |-> 0] :
                        b \in UNION {Heard(r, Request(s, s), packet.xid) : r \in running}}
    BY <1>1, <2>1, AllAnswer
  <2>3. QED
    BY <1>7, <2>2
<1>9. n.age = 0 /\ n.answer.mine /\ n.answer.type = "ack" /\ n.answer.xid <= xid'
  BY <1>2, <1>3 DEF Answer, Answers
<1> HIDE DEF n
<1>10. Requesting'
  BY <1>2, <1>4, <1>5, <1>8, <1>9, EmptySeq DEF Requesting, Expected
<1>11. QED
  BY <1>10 DEF Brisk

LEMMA IgnoredBrisk ==
  ASSUME IInv, Patient, Brisk, Latency = 1, NEW packet, Ignored(packet)
  PROVE  Brisk'
<1>1. /\ NextPacket(packet) /\ received' = <<>> /\ waited' = 0
      /\ UNCHANGED <<elapsed, network, xid>> /\ Typed
      /\ dhcp_state \in {"discover", "request"}
      /\ Type(packet) \notin IF dhcp_state = "discover" THEN {"offer"} ELSE {"ack", "nak"}
  BY DEF Ignored, Read, Flush, IInv
<1>2. packet \in Answers /\ 1 \in 1 .. Len(received) /\ packet = received[1] /\ received # <<>>
  BY <1>1, HeadRead
<1>3. ~ Offering
  BY <1>1, <1>2 DEF Offering, Offer, Type, Accepts
<1>4. ~ Acknowledging
  <2>1. OnItsWay("ack") => Type(packet) = "ack"
    BY <1>1, PacketExpected DEF Expected, Type, Accepts
  <2>2. QED
    BY <1>1, <2>1 DEF Acknowledging
<1>5. Requesting
  BY <1>1, <1>3, <1>4 DEF Brisk
<1>6. dhcp_state' = "request"
  <2>1. ~ (1 > Timeout)
    BY Sizes DEF Patient
  <2>2. QED
    BY <1>5, <2>1 DEF Ignored, Continue, Requesting
<1>7. Requesting'
  BY <1>1, <1>5, <1>6, EmptySeq DEF Requesting, Expected
<1>8. QED
  BY <1>7 DEF Brisk

LEMMA AnsweredBrisk ==
  ASSUME IInv, Brisk, NEW packet, Refused(packet) \/ Acknowledged(packet)
  PROVE  Brisk'
<1>1. NextPacket(packet) /\ Typed /\ dhcp_state = "request"
  BY DEF Refused, Acknowledged, Read, IInv
<1>2. packet \in Answers /\ 1 \in 1 .. Len(received) /\ packet = received[1]
  BY <1>1, HeadRead
<1>3. Requesting \/ Acknowledging
  BY <1>1 DEF Brisk, Offering
<1>4. packet.type \in {"offer", "ack"}
  BY <1>1, <1>2, <1>3, PacketExpected DEF Requesting, Acknowledging, Expected
<1>5. ~ Refused(packet)
  BY <1>4 DEF Refused, Type, Accepts
<1>6. QED
  BY <1>5 DEF Acknowledged, Brisk

LEMMA SleepBrisk ==
  ASSUME IInv, Patient, Brisk, Latency = 1, Sleep PROVE Brisk'
<1> DEFINE Older(m) == [m EXCEPT !.age = @ + 1]
<1>1. /\ received = <<>> /\ Typed /\ dhcp_state \in {"discover", "request"}
      /\ \A m \in network : m.age \in Nat /\ m.age < 1
      /\ UNCHANGED <<dhcp_state, xid, serverIp, received, running>>
      /\ network' = {Older(m) : m \in network}
  BY DEF Sleep, client, IInv, Typed
<1>2. \A m \in network : Older(m).age = m.age + 1 /\ Older(m).answer = m.answer
  BY <1>1 DEF Typed
<1>3. ASSUME waited = 0, elapsed \in {0, 1} PROVE waited' = 1 /\ elapsed' = elapsed + 1
  <2>1. elapsed <= Timeout /\ waited <= ResponseTimeout
    BY <1>3, Sizes DEF Patient
  <2>2. Min({waited, ResponseTimeout}) = waited /\ Min({elapsed, Timeout}) = elapsed
    BY <1>3, <2>1, MinOfTwo, Sizes
  <2>3. QED
    BY <1>3, <2>2 DEF Sleep
<1> HIDE DEF Older
<1>4. CASE Offering
  <2>1. elapsed = 0 /\ waited = 0
    <3>1. network # {}
      BY <1>1, <1>4 DEF Offering, Silent
    <3>2. QED
      BY <1>1, <1>4, <3>1 DEF Offering
  <2>2. elapsed' = 1 /\ waited' = 1
    BY <1>3, <2>1
  <2>3. \A m \in network' : m.age = 1 /\ Offer(m.answer)'
    <3>1. \A m \in network : Older(m).age = 1 /\ Offer(Older(m).answer)
      BY <1>1, <1>2, <1>4, <2>1 DEF Offering
    <3>2. QED
      BY <1>1, <3>1 DEF Offer
  <2>4. network' # {}
    BY <1>1, <1>4 DEF Offering, Silent
  <2>5. Offering'
    BY <1>1, <1>4, <2>2, <2>3, <2>4, EmptySeq DEF Offering, Silent
  <2>6. QED
    BY <2>5 DEF Brisk
<1>5. CASE Requesting
  <2>1. PICK m \in network : /\ m.age = 0 /\ Expected(m.answer, "ack")
                             /\ \A n \in network \ {m} : n.age = 1
    BY <1>5 DEF Requesting
  <2>2. network = {m}
    BY <1>1, <2>1
  <2>3. network' = {Older(m)} /\ Older(m).age = 1 /\ Older(m).answer = m.answer
    BY <1>1, <1>2, <2>1, <2>2
  <2>4. elapsed' = 2 /\ waited' = 1
    BY <1>3, <1>5 DEF Requesting
  <2>5. OnItsWay("ack")'
    BY <1>1, <2>1, <2>3, <2>4 DEF OnItsWay, Expected
  <2>6. QED
    BY <1>1, <1>5, <2>4, <2>5 DEF Brisk, Requesting, Acknowledging
<1>6. CASE Acknowledging
  <2>1. PICK m \in network : m.age >= 1
    BY <1>1, <1>6, EmptySeq DEF Acknowledging, OnItsWay
  <2>2. QED
    BY <1>1, <2>1
<1>7. QED
  BY <1>1, <1>4, <1>5, <1>6 DEF Brisk

LEMMA ArriveBrisk ==
  ASSUME IInv, Brisk, Latency = 1, Arrive PROVE Brisk'
<1>1. PICK m \in network : m.age > 0 /\ received' = Append(received, m.answer)
                           /\ network' = network \ {m}
  BY DEF Arrive
<1>2. /\ UNCHANGED <<dhcp_state, xid, serverIp, elapsed, waited, running>>
      /\ received \in Seq(Answers) /\ m.answer \in Answers /\ m.age \in Nat /\ network # {}
      /\ dhcp_state \in {"start", "discover", "request"}
  BY DEF Arrive, Working, client, clock, IInv, Typed
<1>3. /\ Len(received') = Len(received) + 1 /\ Len(received) \in Nat
      /\ \A i \in 1 .. Len(received) : received'[i] = received[i]
      /\ received'[Len(received) + 1] = m.answer
  BY <1>1, <1>2, AppendProperties
<1>4. \A i \in 1 .. Len(received') : i \in 1 .. Len(received) \/ i = Len(received) + 1
  BY <1>3
<1>5. received' # <<>>
  BY <1>3, EmptySeq
<1>6. CASE Offering
  <2>1. elapsed = 1
    BY <1>1, <1>6 DEF Offering
  <2>2. Offer(m.answer) /\ \A i \in 1 .. Len(received) : Offer(received[i])
    BY <1>6 DEF Offering
  <2>3. \A i \in 1 .. Len(received') : Offer(received'[i])
    BY <1>3, <1>4, <2>2
  <2>4. \A a : Offer(a) => Offer(a)'
    BY <1>2 DEF Offer
  <2>5. Offering'
    <3>1. \A i \in 1 .. Len(received') : Offer(received[i])'
      BY <1>2, <2>3 DEF Offer
    <3>2. \A n \in network' : n.age = elapsed' /\ Offer(n.answer)'
      BY <1>1, <1>2, <1>6, <2>4 DEF Offering
    <3>3. QED
      BY <1>2, <1>5, <1>6, <2>1, <3>1, <3>2 DEF Offering, Silent
  <2>6. QED
    BY <2>5 DEF Brisk
<1>7. CASE Requesting
  <2>1. PICK n \in network : /\ n.age = 0 /\ Expected(n.answer, "ack")
                             /\ \A o \in network \ {n} : o.age = 1 /\ o.answer.type = "offer"
    BY <1>7 DEF Requesting
  <2>2. m # n /\ m.answer.type = "offer"
    BY <1>1, <2>1
  <2>3. n \in network' /\ \A o \in network' \ {n} : o.age = 1 /\ o.answer.type = "offer"
    BY <1>1, <2>1, <2>2
  <2>4. \A i \in 1 .. Len(received') : received'[i].type = "offer"
    BY <1>3, <1>4, <1>7, <2>2 DEF Requesting
  <2>5. Expected(n.answer, "ack") /\ xid' = xid
    BY <1>2, <2>1
  <2>6. Requesting'
    BY <1>2, <1>7, <2>1, <2>3, <2>4, <2>5 DEF Requesting, Expected
  <2>7. QED
    BY <2>6 DEF Brisk
<1>8. CASE Acknowledging
  <2>1. received = <<>> /\ network = {m} /\ Expected(m.answer, "ack")
    BY <1>1, <1>8 DEF Acknowledging, OnItsWay
  <2>2. received' = <<m.answer>> /\ network' = {}
    BY <1>1, <1>2, <2>1
  <2>3. waited' <= Latency
    BY <1>2, <1>8 DEF Acknowledging
  <2>4. m.answer.mine /\ m.answer.type = "ack" /\ m.answer.xid <= xid'
    BY <1>2, <2>1 DEF Expected
  <2>5. OnItsWay("ack")'
    BY <1>2, <2>2, <2>3, <2>4 DEF OnItsWay, Expected
  <2>6. QED
    BY <1>2, <1>8, <2>5 DEF Brisk, Acknowledging
<1>9. ~ Silent
  BY <1>2 DEF Silent
<1>10. QED
  BY <1>2, <1>6, <1>7, <1>8, <1>9 DEF Brisk

\* No fault is taken back.
LEMMA FaultsCounted ==
  ASSUME IInv, faults \in Nat, Next
  PROVE  /\ faults' \in Nat /\ faults <= faults' /\ running' = running
         /\ Lose \/ Repeat \/ Overhear \/ Delay => faults' = faults + 1
<1>1. running \in SUBSET Servers
  BY DEF IInv, Typed
<1>2. \A deaf \in SUBSET running : Cardinality(deaf) \in Nat
  <2>1. SUFFICES ASSUME NEW deaf \in SUBSET running PROVE Cardinality(deaf) \in Nat
    OBVIOUS
  <2>2. deaf \in SUBSET Servers /\ IsFiniteSet(Servers)
    BY <1>1, DhcpAssumption
  <2>3. IsFiniteSet(deaf)
    BY <2>2, FS_Subset
  <2>4. QED
    BY <2>3, FS_CardinalityType
<1>3. ASSUME NEW message, NEW id, Send(message, id) PROVE faults' \in Nat /\ faults <= faults'
  <2>1. PICK deaf \in SUBSET running : faults' = faults + Cardinality(deaf)
    BY <1>3 DEF Send
  <2>2. QED
    BY <1>2, <2>1
<1>4. Lose \/ Repeat \/ Overhear \/ Delay => faults' = faults + 1
  BY DEF Lose, Repeat, Overhear, Delay
<1>5. running' = running
  BY DEF Next, Client, Network, Begin, Start, Overdue, Sleep, Offered, Refused, Acknowledged,
         Ignored, Read, Arrive, Lose, Repeat, Overhear, Delay
<1>6. Start => faults' \in Nat /\ faults <= faults'
  BY <1>3 DEF Start
<1>7. ASSUME NEW packet, Offered(packet) PROVE faults' \in Nat /\ faults <= faults'
  BY <1>3, <1>7 DEF Offered
<1>8. Begin \/ Overdue \/ Sleep \/ Arrive => faults' = faults
  BY DEF Begin, Overdue, Sleep, Arrive
<1>9. ASSUME NEW packet, Refused(packet) \/ Acknowledged(packet) \/ Ignored(packet)
      PROVE  faults' = faults
  BY <1>9 DEF Refused, Acknowledged, Ignored
<1>10. faults' \in Nat /\ faults <= faults'
  BY <1>4, <1>6, <1>7, <1>8, <1>9 DEF Next, Client, Network
<1>11. QED
  BY <1>4, <1>5, <1>10

LEMMA NextBrisk ==
  ASSUME IInv, Patient, faults \in Nat, Undisturbed, Next PROVE Undisturbed'
<1>1. SUFFICES ASSUME Latency = 1, faults' = 0, running' # {} PROVE Brisk'
  BY DEF Undisturbed
<1>2. faults = 0 /\ ~ (Lose \/ Repeat \/ Overhear \/ Delay) /\ running' = running
  <2>1. /\ faults <= faults' /\ running' = running
        /\ Lose \/ Repeat \/ Overhear \/ Delay => faults' = faults + 1
    BY FaultsCounted
  <2>2. faults = 0
    BY <1>1, <2>1
  <2>3. ~ (faults' = faults + 1)
    BY <1>1, <2>2
  <2>4. QED
    BY <2>1, <2>2, <2>3
<1>3. running' = running
  BY <1>2
<1>4. Brisk
  BY <1>1, <1>2, <1>3 DEF Undisturbed
<1>5. CASE Begin
  BY <1>4, <1>5 DEF Begin, Listen, Brisk, Offering, Requesting, Acknowledging, Silent, clock
<1>6. CASE Start
  BY <1>1, <1>2, <1>3, <1>4, <1>6, StartBrisk
<1>7. CASE Overdue
  <2>1. waited > ResponseTimeout /\ dhcp_state \in {"discover", "request"}
    BY <1>7 DEF Overdue, Expired
  <2>2. waited \in {0, 1}
    BY <1>4, <2>1 DEF Brisk, Offering, Requesting, Acknowledging
  <2>3. QED
    BY <1>1, <2>1, <2>2, Sizes DEF Patient
<1>8. CASE Sleep
  BY <1>1, <1>4, <1>8, SleepBrisk
<1>9. ASSUME NEW packet, Offered(packet) PROVE Brisk'
  BY <1>1, <1>2, <1>4, <1>9, OfferedBrisk
<1>10. ASSUME NEW packet, Refused(packet) \/ Acknowledged(packet) PROVE Brisk'
  BY <1>4, <1>10, AnsweredBrisk
<1>11. ASSUME NEW packet, Ignored(packet) PROVE Brisk'
  BY <1>1, <1>4, <1>11, IgnoredBrisk
<1>12. CASE Arrive
  BY <1>1, <1>4, <1>12, ArriveBrisk
<1>13. QED
  BY <1>2, <1>5, <1>6, <1>7, <1>8, <1>9, <1>10, <1>11, <1>12 DEF Next, Client, Network

-----------------------------------------------------------------------------
(* The invariant of the whole.                                             *)

InTime ==
  /\ IInv /\ faults \in Nat
  /\ \A s \in Servers : running = {s} => Counted /\ Alone(s)
  /\ Undisturbed

LEMMA StartsInTime == Init => InTime
<1> SUFFICES ASSUME Init PROVE InTime
  OBVIOUS
<1>1. IInv
  BY Starts
<1>2. /\ dhcp_state = "begin" /\ serverIp = NoAddress /\ received = <<>> /\ network = {}
      /\ elapsed = 0 /\ waited = 0 /\ faults = 0
  BY DEF Init
<1>3. Silent
  BY <1>2 DEF Silent
<1>4. Counted
  <2>1. IsFiniteSet(network)
    BY <1>2, FS_EmptySet
  <2>2. QED
    BY <1>2, <2>1, Sizes DEF Counted
<1>5. OnTime
  <2>1. Budget(0) = 2 * Latency
    BY Sizes DEF Budget
  <2>2. elapsed + 2 * Latency <= Budget(faults)
    BY <1>2, <2>1, Sizes
  <2>3. QED
    BY <1>2, <1>3, <2>2 DEF OnTime
<1>6. \A s \in Servers : OnlyFrom(s)
  BY <1>2, EmptySeq DEF OnlyFrom
<1>7. Undisturbed
  BY <1>2, <1>3 DEF Undisturbed, Brisk
<1>8. QED
  BY <1>1, <1>2, <1>4, <1>5, <1>6, <1>7 DEF InTime, Alone

LEMMA NextInTime == ASSUME Patient, InTime, Next PROVE InTime'
<1>1. IInv /\ IInv' /\ faults \in Nat
  BY ClientKeeps, NetworkStepKeeps DEF InTime, Next
<1>2. faults' \in Nat /\ running' = running
  BY <1>1, FaultsCounted
<1>3. Undisturbed'
  BY <1>1, NextBrisk DEF InTime
<1>4. ASSUME NEW s \in Servers, running' = {s} PROVE Counted' /\ Alone(s)'
  <2>1. Counted /\ Alone(s)
    BY <1>2, <1>4 DEF InTime
  <2>2. Begin => Counted' /\ Alone(s)'
    BY <1>1, <2>1, BeginInTime
  <2>3. Start => Counted' /\ Alone(s)'
    BY <1>1, <2>1, StartInTime
  <2>4. Overdue => Counted' /\ Alone(s)'
    BY <1>1, <2>1, OverdueInTime
  <2>5. Sleep => Counted' /\ Alone(s)'
    BY <1>1, <2>1, SleepInTime
  <2>6. ASSUME NEW packet, Offered(packet) PROVE Counted' /\ Alone(s)'
    BY <1>1, <2>1, <2>6, OfferedInTime
  <2>7. ASSUME NEW packet, Refused(packet) \/ Acknowledged(packet) PROVE Counted' /\ Alone(s)'
    BY <1>1, <2>1, <2>7, AnsweredInTime
  <2>8. ASSUME NEW packet, Ignored(packet) PROVE Counted' /\ Alone(s)'
    BY <1>1, <2>1, <2>8, IgnoredInTime
  <2>9. Arrive => Counted' /\ Alone(s)'
    BY <1>1, <2>1, ArriveInTime
  <2>10. Lose \/ Repeat \/ Overhear \/ Delay => Counted' /\ Alone(s)'
    BY <1>1, <2>1, FaultInTime
  <2>11. QED
    BY <2>2, <2>3, <2>4, <2>5, <2>6, <2>7, <2>8, <2>9, <2>10 DEF Next, Client, Network
<1>5. QED
  BY <1>1, <1>2, <1>3, <1>4 DEF InTime

LEMMA StutterInTime == ASSUME InTime, UNCHANGED vars PROVE InTime'
<1>1. IInv'
  BY StutterKeeps DEF InTime
<1>2. UNCHANGED <<dhcp_state, xid, serverIp, elapsed, waited, received, network, running, faults>>
  BY DEF vars, client, clock
<1>3. Counted => Counted'
  BY <1>2 DEF Counted
<1>4. OnTime => OnTime'
  BY <1>2 DEF OnTime, Straight, Detour, OnItsWay, Silent, Late, Waiting, Packets, Extra, Expected
<1>5. \A s \in Servers : Alone(s) => Alone(s)'
  BY <1>2, <1>4 DEF Alone, OnlyFrom, FromServer
<1>6. Undisturbed => Undisturbed'
  BY <1>2 DEF Undisturbed, Brisk, Offering, Requesting, Acknowledging, Offer, OnItsWay, Silent,
              Expected
<1>7. QED
  BY <1>1, <1>2, <1>3, <1>5, <1>6 DEF InTime

\* Who is on time does not give up.
LEMMA NotGivenUp == ASSUME InTime PROVE Perseveres
<1>1. SUFFICES ASSUME dhcp_state = "expired", running # {}
               PROVE  Several /\ (faults > 0 \/ Latency > 1)
  BY DEF Perseveres
<1>2. ~ OnTime
  BY <1>1 DEF OnTime, Straight, Detour, Waiting
<1>3. ~ Brisk
  BY <1>1 DEF Brisk, Offering, Requesting, Acknowledging
<1>4. \A s \in Servers : running # {s}
  BY <1>2 DEF InTime, Alone
<1>5. Several
  BY <1>1, <1>4 DEF Several, InTime, IInv, Typed
<1>6. Latency # 1 \/ faults # 0
  BY <1>1, <1>3 DEF InTime, Undisturbed
<1>7. faults \in Nat
  BY DEF InTime
<1>8. QED
  BY <1>5, <1>6, <1>7, Sizes

\* A single server is found whatever the network loses, holds up, repeats or brings by
\* mistake, as long as the time limit leaves room for it; and several servers are found
\* when nothing goes wrong and none is slower than another (Dhcp.cpp:73-80, 212-226, 289).
THEOREM Perseverance == ASSUME Patient PROVE Spec => []Perseveres
<1>1. Init => InTime
  BY StartsInTime
<1>2. InTime /\ [Next]_vars => InTime'
  BY NextInTime, StutterInTime
<1>3. InTime => Perseveres
  BY NotGivenUp
<1>4. QED
  BY <1>1, <1>2, <1>3, PTL DEF Spec
=============================================================================
