-------------------------------- MODULE MCDhcp --------------------------------
(* One server gives both options and the other one of them, so that an option *)
(* can be the other server's, or left from before.                            *)
EXTENDS DhcpProperties

CONSTANTS a, b, mask, gateway

MCServers == {a, b}
MCOptions == {mask, gateway}
MCGives == [s \in MCServers |-> IF s = a THEN MCOptions ELSE {mask}]
=============================================================================
