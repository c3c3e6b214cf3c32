---------------------------- MODULE DhcpProperties ----------------------------
(* What Ethernet.begin(mac) promises to the sketch that calls it.          *)
EXTENDS Dhcp

Returned == dhcp_state \in {"no socket", "expired", "leased"}

\* The address the chip gets is one that a server granted to this client, not one that
\* another server offered meanwhile and not another client's; and the options are those
\* of the same server as far as it gives any.  There is one exception: the
\* acknowledgement was parsed with other packets behind it in the socket, whose bytes
\* may then stand in the options' place.  An option that the server leaves out may be
\* left from any earlier answer (beginWithDHCP and parseDHCPResponse, Dhcp.cpp:47-71,
\* 233-317).
LeaseIsGranted ==
  dhcp_state = "leased" =>
    /\ address.ip \in granted
    /\ \A o \in Gives[address.ip] :
         address.options[o] = address.ip \/ (overran /\ address.options[o] = Misread)

Several == \E r, s \in running : r # s

\* A server is found.  When there is only one it is found although MaxFaults messages
\* are lost, held up, repeated or overheard, because the client has the time to start
\* over.  When there are several they disturb each other, and one is found only if
\* nothing goes wrong and none is slower than another
\* (Dhcp.cpp:73-80, 212-226, 234, 289).
Perseveres ==
  dhcp_state = "expired" => running = {} \/ (Several /\ (faults > 0 \/ Latency > 1))

\* The call returns, whatever the servers do (Dhcp.cpp:38-81, 219-226).
Returns == <>Returned
=============================================================================
