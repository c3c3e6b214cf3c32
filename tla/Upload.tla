-------------------------------- MODULE Upload --------------------------------
(***************************************************************************)
(* ERxPachubeDataOut::updatePachube over an EthernetClient: one request to *)
(* the feed server on a socket of the chip, the first line of its answer,  *)
(* and the end of the connection.                                          *)
(*                                                                         *)
(* Uploads and source ports are counted modulo 2, which is enough to tell  *)
(* one from the one before.  What a request contains is left out, and so   *)
(* are the delays of the loops that wait: the loop that waits for the      *)
(* answer gives up only when the server is not prompt.                     *)
(***************************************************************************)
EXTENDS Naturals, FiniteSets, FiniteSetsExt

CONSTANTS
  MAX_SOCK_NUM,
  Hasty,       \* whether the server may close before it answers
  MaxFaults    \* how often the server may change

ASSUME UploadAssumption == MAX_SOCK_NUM \in Nat \ {0} /\ Hasty \in BOOLEAN /\ MaxFaults \in Nat

VARIABLES
  call,       \* where updatePachube is, or "returned"
  status,     \* what it is going to return; 0 again when it did
  upload,     \* the number of this upload
  _sock, _srcport,   \* of localClient, of EthernetClient
  chip,       \* the registers of each socket: [status, port, received]
  asked,      \* the requests that are with the server: [upload, port]
  stored,     \* the uploads the feed has: of this one and the last
  server,     \* "up", "slow", "refusing" or "down"
  faults

remote == <<asked, stored, server, faults>>
uploadVars == <<call, status, upload, _sock, _srcport, chip, remote>>

Sockets == 0 .. MAX_SOCK_NUM - 1
OK == 200
None == 2   \* no answer in the buffer

UploadInit ==
  /\ call = "returned" /\ status = 0 /\ upload = 0
  /\ _sock = MAX_SOCK_NUM /\ _srcport = 0
  /\ chip = [s \in Sockets |-> [status |-> "CLOSED", port |-> 0, received |-> None]]
  /\ asked = {} /\ stored = {}
  /\ server \in {"up", "slow", "refusing", "down"} /\ faults = 0

-----------------------------------------------------------------------------
(* The client *)

\* Uploads are far enough apart for the server to be done with the last but one.
Start ==
  /\ call = "returned"
  /\ \A r \in asked : r.upload = upload
  /\ upload' = 1 - upload
  /\ stored' = stored \cap {upload}
  /\ call' = "connect"
  /\ UNCHANGED <<status, _sock, _srcport, chip, asked, server, faults>>

Free == {s \in Sockets : chip[s].status \in {"CLOSED", "FIN_WAIT"}}

SamePort == _srcport
NextPort == 1 - _srcport

\* socket() and connect() of socket.cpp: the socket starts empty, on a port of its own.
Opened == [status |-> "SYNSENT", port |-> NextPort, received |-> None]

Connect ==
  /\ call = "connect"
  /\ IF _sock = MAX_SOCK_NUM /\ Free # {}
     THEN /\ _sock' = Min(Free)
          /\ _srcport' = NextPort
          /\ chip' = [chip EXCEPT ![Min(Free)] = Opened]
          /\ call' = "connecting"
     ELSE /\ call' = "returned"
          /\ UNCHANGED <<_sock, _srcport, chip>>
  /\ UNCHANGED <<status, upload, remote>>

\* A mutant, for the checks only: the client does not give the socket up.
NotConnectedKept ==
  /\ call = "connecting" /\ chip[_sock].status = "CLOSED"
  /\ call' = "returned"
  /\ UNCHANGED <<status, upload, _sock, _srcport, chip, remote>>

NotConnected ==
  /\ call = "connecting" /\ chip[_sock].status = "CLOSED"
  /\ _sock' = MAX_SOCK_NUM
  /\ call' = "returned"
  /\ UNCHANGED <<status, upload, _srcport, chip, remote>>

Send ==
  /\ call = "connecting" /\ chip[_sock].status = "ESTABLISHED"
  /\ asked' = asked \cup {[upload |-> upload, port |-> chip[_sock].port]}
  /\ call' = "waiting"
  /\ UNCHANGED <<status, upload, _sock, _srcport, chip, stored, server, faults>>

\* getline and getHttpStatusCodeFromHeader: a first line that is cut gives 0.
ReadStatus ==
  /\ call = "waiting" /\ chip[_sock].received # None
  /\ status' = chip[_sock].received /\ call' = "stop"
  /\ UNCHANGED <<upload, _sock, _srcport, chip, remote>>

Prompt == server \in {"up", "refusing"} /\ \E r \in asked : r.upload = upload

TimeOut ==
  /\ call = "waiting" /\ chip[_sock].received = None
  /\ ~Prompt
  /\ status' = 2 /\ call' = "stop"
  /\ UNCHANGED <<upload, _sock, _srcport, chip, remote>>

Disconnect ==
  /\ call = "stop"
  /\ chip' = [chip EXCEPT ![_sock].status = IF @ = "ESTABLISHED" THEN "FIN_WAIT" ELSE "CLOSED"]
  /\ call' = "closing"
  /\ UNCHANGED <<status, upload, _sock, _srcport, remote>>

\* It closed within a second, or is closed now.
Close ==
  /\ call = "closing"
  /\ chip' = [chip EXCEPT ![_sock].status = "CLOSED"]
  /\ _sock' = MAX_SOCK_NUM
  /\ call' = "returned" /\ status' = 0
  /\ UNCHANGED <<upload, _srcport, remote>>

Client == Connect \/ NotConnected \/ Send \/ ReadStatus \/ TimeOut \/ Disconnect \/ Close

-----------------------------------------------------------------------------
(* The chip, the network and the server *)

Connecting(s) ==
  /\ chip[s].status = "SYNSENT"
  /\ chip' = [chip EXCEPT ![s].status = IF server = "down" THEN "CLOSED" ELSE "ESTABLISHED"]
  /\ UNCHANGED <<call, status, upload, _sock, _srcport, remote>>

\* A slow server's first segment may hold only a part of the first line.
Codes == CASE server = "up" -> {OK}
           [] server = "slow" -> {OK, 0}
           [] server = "refusing" -> {503}
           [] server = "down" -> {None}

\* The answer arrives where the request came from, if that connection is open.
Answer(r) ==
  /\ \E code \in Codes :
       /\ stored' = IF code \in {OK, 0} THEN stored \cup {r.upload} ELSE stored
       /\ chip' = [s \in Sockets |->
            IF chip[s].port = r.port /\ chip[s].status \in {"ESTABLISHED", "FIN_WAIT"}
            THEN [chip[s] EXCEPT !.received = code] ELSE chip[s]]
  /\ asked' = asked \ {r}
  /\ UNCHANGED <<call, status, upload, _sock, _srcport, server, faults>>

\* "Connection: close"
PeerCloses(s) ==
  /\ chip[s].status = "ESTABLISHED" /\ (Hasty \/ chip[s].received # None)
  /\ chip' = [chip EXCEPT ![s].status = "CLOSE_WAIT"]
  /\ UNCHANGED <<call, status, upload, _sock, _srcport, remote>>

Net == (\E s \in Sockets : Connecting(s) \/ PeerCloses(s)) \/ \E r \in asked : Answer(r)

Change ==
  /\ faults < MaxFaults
  /\ faults' = faults + 1
  /\ server' \in {"up", "slow", "refusing", "down"} \ {server}
  /\ UNCHANGED <<call, status, upload, _sock, _srcport, chip, asked, stored>>
=============================================================================
