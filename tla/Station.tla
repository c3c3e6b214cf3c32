-------------------------------- MODULE Station --------------------------------
(***************************************************************************)
(* ERxPachubeService: once a minute it asks for the temperature and the    *)
(* humidity, with a command to this board or to the board of the sensor,   *)
(* and every result it sees it uploads.                                    *)
(*                                                                         *)
(* A call of the service by the host is a few steps, because each minute() *)
(* reads the clock again.  The two counters that the fifth stream reports  *)
(* are left out: nothing depends on them.                                  *)
(***************************************************************************)
EXTENDS Clock, Upload

CONSTANTS
  MaxBusy,      \* a pass of the host, with its upload, takes at most so many ticks
  MaxPending    \* results that are on their way

ASSUME StationAssumption == {MaxBusy, MaxPending} \subseteq Nat \ {0}

UPDATE_INTERVAL == 1
Limit == 5   \* of the updates in a minute that the account is granted

VARIABLES
  at,                 \* the host, or where in Populate it is
  last_connect, m_bIsFirstCommand,
  busy,               \* the ticks since Populate was called
  pending,            \* results on their way to HandleResult
  requests,           \* how many ticks ago it asked, the last times: a minute and more as a minute
  quiet               \* the ticks since it asked

service == <<at, last_connect, m_bIsFirstCommand, pending>>
history == <<requests, quiet, busy>>
vars == <<timeVars, uploadVars, service, history>>

\* The constructor leaves m_bIsFirstCommand as it finds it.
Init ==
  /\ ClockInit /\ UploadInit
  /\ at = "host"
  /\ last_connect = 0
  /\ m_bIsFirstCommand \in BOOLEAN
  /\ pending = 0 /\ busy = 0
  /\ requests = [i \in 1 .. Limit + 1 |-> SECS_PER_MIN] /\ quiet = 0

-----------------------------------------------------------------------------
(* Populate *)

Compare ==
  /\ at = "host" /\ call = "returned"
  /\ pending < MaxPending
  /\ \E t \in Times : Now(t) /\ at' = IF Minute(t) < last_connect THEN "reset" ELSE "check"
  /\ busy' = 0
  /\ UNCHANGED <<uploadVars, last_connect, m_bIsFirstCommand, pending, requests, quiet>>

Reset ==
  /\ at = "reset"
  /\ \E t \in Times : Now(t) /\ last_connect' = Minute(t)
  /\ at' = "check"
  /\ UNCHANGED <<uploadVars, m_bIsFirstCommand, pending, history>>

DueLate(m) == m < last_connect \/ m - last_connect > UPDATE_INTERVAL

\* The difference is unsigned: the minute may have wrapped since it was compared.
Due(m) == m < last_connect \/ m - last_connect >= UPDATE_INTERVAL

CheckFirst ==
  /\ at = "check" /\ m_bIsFirstCommand
  /\ at' = "ask"
  /\ UNCHANGED <<timeVars, uploadVars, last_connect, m_bIsFirstCommand, pending, history>>

Check ==
  /\ at = "check" /\ ~m_bIsFirstCommand
  /\ \E t \in Times : Now(t) /\ at' = IF Due(Minute(t)) THEN "ask" ELSE "host"
  /\ UNCHANGED <<uploadVars, last_connect, m_bIsFirstCommand, pending, history>>

StampForgotten(m) == last_connect
Stamp(m) == m

Ask ==
  /\ at = "ask"
  /\ m_bIsFirstCommand' = FALSE
  /\ \E t \in Times : Now(t) /\ last_connect' = Stamp(Minute(t))
  /\ pending' = pending + 1
  /\ at' = "host"
  /\ requests' = [i \in 1 .. Limit + 1 |-> IF i = 1 THEN 0 ELSE requests[i - 1]]
  /\ quiet' = 0
  /\ UNCHANGED <<uploadVars, busy>>

(* HandleResult, of a result of this board or of a message of another *)
HandleResult ==
  /\ at = "host" /\ pending > 0
  /\ Start
  /\ pending' = pending - 1
  /\ UNCHANGED <<timeVars, at, last_connect, m_bIsFirstCommand, history>>

Update == Client /\ UNCHANGED <<timeVars, service, history>>

-----------------------------------------------------------------------------

Passing ==
  /\ busy < MaxBusy
  /\ Tick
  /\ busy' = busy + 1
  /\ requests' = [i \in 1 .. Limit + 1 |->
                   IF requests[i] < SECS_PER_MIN THEN requests[i] + 1 ELSE SECS_PER_MIN]
  /\ quiet' = quiet + 1
  /\ UNCHANGED <<uploadVars, service>>

\* The message of the sensor's board, or the one to it, is lost.
Lose ==
  /\ pending > 0 /\ faults < MaxFaults
  /\ pending' = pending - 1 /\ faults' = faults + 1
  /\ UNCHANGED <<timeVars, call, status, upload, _sock, _srcport, chip, asked, stored, server,
                 at, last_connect, m_bIsFirstCommand, history>>

Populate == Compare \/ Reset \/ CheckFirst \/ Check \/ Ask

Surroundings == (Net \/ Change) /\ UNCHANGED <<timeVars, service, history>>

Next == Populate \/ HandleResult \/ Update \/ Passing \/ Lose \/ Surroundings

\* The host runs, the clock ticks, and the chip, the network and the server go on.
Fairness ==
  /\ WF_vars(Populate) /\ WF_vars(HandleResult) /\ WF_vars(Update)
  /\ WF_vars(Passing)
  /\ WF_vars(Net /\ UNCHANGED <<timeVars, service, history>>)

Spec == Init /\ [][Next]_vars /\ Fairness

-----------------------------------------------------------------------------

\* Within a minute the service asks no more than five times, the limit of the
\* account it uploads to (ERxPachubeService.cpp:35): the sixth last time is a minute
\* ago.  That holds wherever the minute ends,
\* whenever the clock is set, and although the minute is read up to four times in
\* one call (Populate, ERxPachubeService.cpp:75-81).
RateKept == requests[Limit + 1] = SECS_PER_MIN

\* The service does not fall silent: not when the minute wraps at the hour, which
\* costs it one update, and not when the clock is set (Populate,
\* ERxPachubeService.cpp:75-78; now and setTime, Time.cpp:239-269).  The bounds are those
\* of a minute that is longer than two passes and the lateness of an answer.
KeepsAsking ==
  quiet <= IF getTimePtr THEN 3 * SECS_PER_MIN + 2 * (2 * MaxBusy - 1) + MaxLate
                         ELSE 2 * SECS_PER_MIN + 2 * MaxBusy - 1

\* An upload counts as a success only if the feed has it: the answer to an earlier
\* one that came too late is never taken for it (updatePachube,
\* ERxPachube.cpp:588-640; connect and stop, EthernetClient.cpp:38-71, 127-145).
StatusIsOurs == status = OK /\ call \in {"stop", "closing"} => upload \in stored

\* When the server is up again, uploads succeed again: a server that refused, was
\* down (a connection that was never made, EthernetClient.cpp:62-66), was slow (one
\* that was given up half open, 127-145) or answered badly does not keep the socket.
\* A server that closes before it answers does: connect() then waits for ever
\* (62-68).  Hasty is such a server, and the run leaves it out.
Recovers == <>[](server = "up") => []<>(call = "closing" /\ status = OK)
=============================================================================
