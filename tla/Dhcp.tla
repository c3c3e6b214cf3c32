--------------------------------- MODULE Dhcp ---------------------------------
(***************************************************************************)
(* Ethernet.begin(mac): the DHCP client of the Ethernet library, the UDP   *)
(* socket it works on, and a network that may lose, delay, repeat and      *)
(* reorder the answers of the servers.                                     *)
(*                                                                         *)
(* An address is the server that hands it out: each server keeps one for   *)
(* this client.  Time passes while the client sleeps between two looks at  *)
(* its socket; a tick is some of these delays, and the clocks count no     *)
(* further than what the code compares them with.  A transaction number    *)
(* counts from the initial one, which is random in the code; it is dropped *)
(* when the call returns, so that the last increment is left out.          *)
(*                                                                         *)
(* The network mask, the gateway and the name server are options of an     *)
(* answer.  A server may leave some of them out, and an older value then   *)
(* stays; and when packets lie behind the one that is parsed, the loop     *)
(* over its options reads on into their headers, where any byte may pass   *)
(* for the code of an option.                                              *)
(***************************************************************************)
EXTENDS Naturals, Sequences, FiniteSets, SequencesExt, FiniteSetsExt

CONSTANTS
  Servers,
  NoAddress,        \* 0.0.0.0
  Foreign,          \* the address of another client
  Options,          \* _dhcpSubnetMask, _dhcpGatewayIp and _dhcpDnsServerIp
  Gives,            \* the options that the answers of a server carry
  Misread,          \* an option taken from the bytes of another packet
  ResponseTimeout,
  Timeout,
  Latency,          \* an answer is on its way for at most so many ticks
  MaxFaults         \* what may go wrong on the network

ASSUME DhcpAssumption ==
  /\ IsFiniteSet(Servers)
  /\ NoAddress \notin Servers /\ Foreign \notin Servers /\ NoAddress # Foreign
  /\ Gives \in [Servers -> SUBSET Options]
  /\ Misread \notin Servers /\ Misread # NoAddress
  /\ {ResponseTimeout, Timeout, Latency, MaxFaults} \subseteq Nat
  /\ Latency > 0

VARIABLES
  dhcp_state,   \* of the client, or "begin", "no socket", "expired", "leased"
  xid,          \* _dhcpTransactionId
  localIp, serverIp,
  options,      \* where each option is from: a server, Misread, or nowhere yet
  address,      \* what the chip is told at the end: [ip, options]
  elapsed,      \* ticks since the call of beginWithDHCP
  waited,       \* ticks since the call of parseDHCPResponse
  received,     \* the receive buffer of the socket
  network,      \* answers on their way: [answer, age]
  running,      \* the servers that run
  granted,      \* the servers that acknowledged their address
  faults,
  overran       \* history: packets lay behind the acknowledgement when it was parsed

client == <<dhcp_state, xid, localIp, serverIp, options, address, overran>>
clock == <<elapsed, waited>>
vars == <<client, clock, received, network, running, granted, faults>>

Init ==
  /\ dhcp_state = "begin"
  /\ xid = 0
  /\ localIp = NoAddress /\ serverIp = NoAddress
  /\ options = [o \in Options |-> NoAddress]
  /\ address = [ip |-> NoAddress, options |-> options]
  /\ overran = FALSE
  /\ elapsed = 0 /\ waited = 0
  /\ received = <<>>
  /\ network = {}
  /\ running \in SUBSET Servers
  /\ granted = {}
  /\ faults = 0

-----------------------------------------------------------------------------
(* What the servers answer.                                                *)

Answer(s, type, id) ==
  [from |-> s, type |-> type, xid |-> id, mine |-> TRUE,
   ip |-> IF type = "nak" THEN NoAddress ELSE s]

\* Server s hears a message: it offers its address, acknowledges a request for
\* it, refuses a request for another, and keeps silent on requests that name
\* another server.
Heard(s, message, id) ==
  IF message.type = "discover" THEN {Answer(s, "offer", id)}
  ELSE IF message.server # s THEN {}
  ELSE {Answer(s, IF message.ip = s THEN "ack" ELSE "nak", id)}

\* The client broadcasts; each running server that does not hear it is a fault.
Send(message, id) ==
  \E deaf \in SUBSET running :
    LET answers == UNION {Heard(s, message, id) : s \in running \ deaf}
    IN  /\ faults + Cardinality(deaf) <= MaxFaults
        /\ faults' = faults + Cardinality(deaf)
        /\ network' = network \cup {[answer |-> a, age |-> 0] : a \in answers}
        /\ granted' = granted \cup {a.from : a \in {b \in answers : b.type = "ack"}}

Discover == [type |-> "discover"]
Request(ip, server) == [type |-> "request", ip |-> ip, server |-> server]

-----------------------------------------------------------------------------
(* The client.                                                             *)

\* The end of a turn of the loop: give up when the time is over.
Continue(state) == dhcp_state' = IF elapsed > Timeout THEN "expired" ELSE state

\* EthernetUDP::begin: a free socket, or none.
Listen == dhcp_state' \in {"start", "no socket"}

Begin ==
  /\ dhcp_state = "begin"
  /\ Listen
  /\ UNCHANGED <<xid, localIp, serverIp, options, address, overran, clock, received, network,
                 running, granted, faults>>

Start ==
  /\ dhcp_state = "start"
  /\ xid' = xid + 1
  /\ Send(Discover, xid + 1)
  /\ Continue("discover")
  /\ waited' = 0
  /\ UNCHANGED <<localIp, serverIp, options, address, overran, elapsed, received, running>>

\* parsePacket: the packet that came first.
NextPacket(packet) == received # <<>> /\ packet = Head(received)

\* Nothing is left when the parsing ends: flush() reads what the loop over the
\* options has not, of the first packet and of those behind it.
Flush == received' = <<>>

\* A packet ends the wait.
Read(packet) ==
  /\ dhcp_state \in {"discover", "request"}
  /\ NextPacket(packet) /\ Flush
  /\ waited' = 0
  /\ UNCHANGED <<elapsed, running, address, overran>>

\* Only answers to this client are looked into, with any number since the first.
AcceptsAll(packet) == packet.xid <= xid
AcceptsEarlier(packet) == packet.mine /\ packet.xid < xid
Accepts(packet) == packet.mine /\ packet.xid <= xid

Type(packet) == IF Accepts(packet) THEN packet.type ELSE "none"

ServerIp(packet) == IF serverIp \in {NoAddress, packet.from} THEN packet.from ELSE serverIp

\* The loop over the options ends with the bytes in the socket, not with the end
\* option: it reads on into the packets behind the first, whose addresses, ports and
\* header fields are then taken for options, and may hit any of the three.  That they
\* also spell a message type or a server identifier, or an option longer than what is
\* left, would take such a byte just where a code is looked for, and is left out.
Overruns == IF Len(received) > 1 THEN SUBSET Options ELSE {{}}

\* What a packet leaves behind, whatever its type: a refusal has no address and
\* no options but the server's.  An option that nothing sets keeps its value.
Parse(packet) ==
  IF Accepts(packet)
  THEN /\ localIp' = packet.ip
       /\ serverIp' = ServerIp(packet)
       /\ \E misread \in Overruns :
            options' = [o \in Options |->
              IF o \in misread THEN Misread
              ELSE IF packet.type # "nak" /\ o \in Gives[packet.from] THEN packet.from
              ELSE options[o]]
  ELSE UNCHANGED <<localIp, serverIp, options>>

Offered(packet) ==
  /\ Read(packet) /\ Parse(packet)
  /\ dhcp_state = "discover" /\ Type(packet) = "offer"
  /\ xid' = packet.xid
  /\ Send(Request(localIp', serverIp'), packet.xid)
  /\ Continue("request")

Refused(packet) ==
  /\ Read(packet) /\ Parse(packet)
  /\ dhcp_state = "request" /\ Type(packet) = "nak"
  /\ Continue("start")
  /\ UNCHANGED <<xid, network, granted, faults>>

\* EthernetClass::begin hands the address and the options to the chip.
Configure == address' = [ip |-> localIp', options |-> options']

Acknowledged(packet) ==
  /\ dhcp_state = "request" /\ Type(packet) = "ack"
  /\ NextPacket(packet) /\ Flush /\ Parse(packet)
  /\ dhcp_state' = "leased"
  /\ Configure
  /\ overran' = (Len(received) > 1)
  /\ UNCHANGED <<xid, clock, network, running, granted, faults>>

Ignored(packet) ==
  /\ Read(packet) /\ Parse(packet)
  /\ Type(packet) \notin IF dhcp_state = "discover" THEN {"offer"} ELSE {"ack", "nak"}
  /\ Continue(dhcp_state)
  /\ UNCHANGED <<xid, network, granted, faults>>

\* Nothing for too long: from the beginning.
ExpiredNever == FALSE
Expired == waited > ResponseTimeout

Overdue ==
  /\ dhcp_state \in {"discover", "request"}
  /\ received = <<>> /\ Expired
  /\ Continue("start")
  /\ UNCHANGED <<xid, localIp, serverIp, options, address, overran, clock, received, network,
                 running, granted, faults>>

Sleep ==
  /\ dhcp_state \in {"discover", "request"}
  /\ received = <<>> /\ ~Expired
  /\ \A m \in network : m.age < Latency
  /\ network' = {[m EXCEPT !.age = @ + 1] : m \in network}
  /\ elapsed' = Min({elapsed, Timeout}) + 1
  /\ waited' = Min({waited, ResponseTimeout}) + 1
  /\ UNCHANGED <<client, received, running, granted, faults>>

Client ==
  \/ Begin \/ Start \/ Overdue \/ Sleep
  \/ \E packet \in Range(received) :
       Offered(packet) \/ Refused(packet) \/ Acknowledged(packet) \/ Ignored(packet)

-----------------------------------------------------------------------------
(* The network.  An answer takes at least a tick.                          *)

Working == dhcp_state \in {"start", "discover", "request"}

Arrive ==
  \E m \in network :
    /\ Working /\ m.age > 0
    /\ received' = Append(received, m.answer)
    /\ network' = network \ {m}
    /\ UNCHANGED <<client, clock, running, granted, faults>>

Lose ==
  \E m \in network :
    /\ Working /\ faults < MaxFaults
    /\ network' = network \ {m}
    /\ faults' = faults + 1
    /\ UNCHANGED <<client, clock, received, running, granted>>

Repeat ==
  \E m \in network :
    /\ Working /\ faults < MaxFaults /\ m.age > 0
    /\ received' = Append(received, m.answer)
    /\ faults' = faults + 1
    /\ UNCHANGED <<client, clock, network, running, granted>>

\* An answer to another client, or one that is no answer at all.
Overhear ==
  \E s \in Servers, id \in 0..xid :
    /\ Working /\ faults < MaxFaults
    /\ received' = Append(received, [from |-> s, type |-> "ack", xid |-> id, mine |-> FALSE,
                                     ip |-> Foreign])
    /\ faults' = faults + 1
    /\ UNCHANGED <<client, clock, network, running, granted>>

\* An answer is held up: it may come after the client stopped waiting for it.
Delay ==
  \E m \in network :
    /\ Working /\ faults < MaxFaults /\ m.age = Latency
    /\ network' = (network \ {m}) \cup {[m EXCEPT !.age = 0]}
    /\ faults' = faults + 1
    /\ UNCHANGED <<client, clock, received, running, granted>>

Network == Arrive \/ Lose \/ Repeat \/ Overhear \/ Delay

-----------------------------------------------------------------------------

Next == Client \/ Network

\* The client is alone on its board; the network does not hold an answer for ever.
Spec == Init /\ [][Next]_vars /\ WF_vars(Client) /\ WF_vars(Arrive)
=============================================================================
