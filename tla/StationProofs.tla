----------------------------- MODULE StationProofs -----------------------------
(***************************************************************************)
(* An upload that counts as a success is in the feed, for any number of    *)
(* sockets, any failures of the server and any times; the service keeps    *)
(* the rate of its account, and it never falls silent.                     *)
(*                                                                         *)
(* The first invariant follows the source port: while the client holds a   *)
(* socket, exactly the request of this upload is under way from the port   *)
(* of that socket, so that no answer to an earlier one reaches it.  The    *)
(* second counts the requests of a minute by the minutes the service has   *)
(* stamped, and the third tells, wherever the clock stands, how long it    *)
(* takes at most until the stamp is another minute than the clock's.       *)
(***************************************************************************)
EXTENDS Station, WellFoundedInduction, TLAPS

Held == {"connecting", "waiting", "stop", "closing"}

States == {"CLOSED", "SYNSENT", "ESTABLISHED", "FIN_WAIT", "CLOSE_WAIT"}

Typed ==
  /\ call \in {"returned", "connect"} \cup Held
  /\ upload \in {0, 1} /\ _srcport \in {0, 1}
  /\ chip \in [Sockets -> [status : States, port : {0, 1}, received : Nat]]
  /\ server \in {"up", "slow", "refusing", "down"}
  /\ asked \subseteq [upload : {0, 1}, port : {0, 1}]

\* The socket the client holds is one of the chip's, and on the client's port.
SocketIsOurs == call \in Held => _sock \in Sockets /\ chip[_sock].port = _srcport

\* Where the answers go that are still to come.
PortsTell ==
  /\ call \in Held => \A r \in asked : r.upload = upload <=> r.port = _srcport
  /\ call = "connect" => \A r \in asked : r.upload # upload /\ r.port = _srcport
  /\ call = "returned" => \A r \in asked : r.upload = upload => r.port = _srcport

\* An answer that is in the buffer, and not read yet, is to this upload.
AnswerIsOurs ==
  call \in {"connecting", "waiting"} /\ chip[_sock].received = OK => upload \in stored

IInv == Typed /\ SocketIsOurs /\ PortsTell /\ AnswerIsOurs /\ StatusIsOurs

-----------------------------------------------------------------------------

LEMMA Starts == Init => IInv
<1> SUFFICES ASSUME Init PROVE IInv
  OBVIOUS
<1> USE DEF Init, UploadInit
<1>1. Typed
  BY DEF Typed, None, Held, States
<1>2. SocketIsOurs /\ PortsTell /\ AnswerIsOurs /\ StatusIsOurs
  BY DEF SocketIsOurs, PortsTell, AnswerIsOurs, StatusIsOurs, Held
<1> QED
  BY <1>1, <1>2 DEF IInv

\* A set of natural numbers has a smallest one.
LEMMA Smallest ==
  ASSUME NEW S, S \subseteq Nat, S # {}
  PROVE  \E m \in S : \A s \in S : m <= s
<1>1. \E R : IsWellFoundedOn(R, Nat) /\ \A s, m \in Nat : s < m => <<s, m>> \in R
  <2>1. \A s, m \in Nat : s < m => <<s, m>> \in OpToRel(<, Nat)
    BY DEF OpToRel
  <2> QED
    BY <2>1, NatLessThanWellFounded
<1>2. PICK R : IsWellFoundedOn(R, Nat) /\ \A s, m \in Nat : s < m => <<s, m>> \in R
  BY <1>1
<1>3. IsWellFoundedOn(R, Nat)
  BY <1>2
<1>4. PICK m \in S : \A s \in S : ~ (<<s, m>> \in R)
  BY <1>3, WFMin
<1>5. ASSUME NEW s \in S PROVE m <= s
  <2>1. s \in Nat /\ m \in Nat /\ ~ (<<s, m>> \in R)
    BY <1>4
  <2>2. ~ (s < m)
    BY <1>2, <2>1
  <2> QED
    BY <2>1, <2>2
<1> QED
  BY <1>5

\* The first free socket is a socket.
LEMMA FirstFree == ASSUME Free # {} PROVE Min(Free) \in Sockets
<1>1. Free \subseteq Sockets /\ Sockets \subseteq Nat
  BY UploadAssumption DEF Free, Sockets
<1>2. \E m \in Free : \A s \in Free : m <= s
  BY <1>1, Smallest
<1>3. Min(Free) \in Free
  BY <1>2 DEF Min
<1> QED
  BY <1>1, <1>3

-----------------------------------------------------------------------------
(* The client                                                              *)

LEMMA StartKeeps == ASSUME IInv, Start PROVE IInv'
<1> USE DEF IInv, Start
<1>1. Typed'
  BY DEF Typed
<1>2. PortsTell'
  BY DEF PortsTell, Typed, Held
<1>3. SocketIsOurs' /\ AnswerIsOurs' /\ StatusIsOurs'
  BY DEF SocketIsOurs, AnswerIsOurs, StatusIsOurs, Held
<1> QED
  BY <1>1, <1>2, <1>3

LEMMA ConnectKeeps == ASSUME IInv, Connect PROVE IInv'
<1>1. CASE _sock = MAX_SOCK_NUM /\ Free # {}
  <2>1. Min(Free) \in Sockets
    BY <1>1, FirstFree
  <2>2. /\ call = "connect" /\ call' = "connecting"
        /\ _sock' = Min(Free) /\ _srcport' = 1 - _srcport
        /\ chip' = [chip EXCEPT ![Min(Free)] = Opened]
        /\ UNCHANGED <<status, upload, asked, stored, server>>
    BY <1>1 DEF Connect, remote, NextPort
  <2>3. Typed /\ Typed'
    BY <2>1, <2>2 DEF IInv, Typed, Opened, NextPort, None, Held, States
  <2>4. chip'[_sock'] = Opened
    BY <2>1, <2>2, <2>3 DEF Typed
  <2>5. SocketIsOurs' /\ AnswerIsOurs' /\ StatusIsOurs'
    BY <2>1, <2>2, <2>4 DEF SocketIsOurs, AnswerIsOurs, StatusIsOurs, Opened, NextPort, None, OK
  <2>6. PortsTell'
    BY <2>2, <2>3 DEF IInv, PortsTell, Typed, Held
  <2> QED
    BY <2>3, <2>5, <2>6 DEF IInv
<1>2. CASE ~(_sock = MAX_SOCK_NUM /\ Free # {})
  <2>1. /\ call = "connect" /\ call' = "returned"
        /\ UNCHANGED <<_sock, _srcport, chip, status, upload, asked, stored, server>>
    BY <1>2 DEF Connect, remote
  <2>2. Typed'
    BY <2>1 DEF IInv, Typed
  <2>3. SocketIsOurs' /\ AnswerIsOurs' /\ StatusIsOurs'
    BY <2>1 DEF SocketIsOurs, AnswerIsOurs, StatusIsOurs, Held
  <2>4. PortsTell'
    BY <2>1 DEF IInv, PortsTell, Held
  <2> QED
    BY <2>2, <2>3, <2>4 DEF IInv
<1> QED
  BY <1>1, <1>2

\* The request leaves from the port of the socket.
LEMMA SendKeeps == ASSUME IInv, Send PROVE IInv'
<1>1. /\ call = "connecting" /\ call' = "waiting"
      /\ asked' = asked \cup {[upload |-> upload, port |-> _srcport]}
      /\ UNCHANGED <<status, upload, _sock, _srcport, chip, stored, server>>
  BY DEF IInv, Send, SocketIsOurs, Held
<1>2. Typed'
  BY <1>1 DEF IInv, Typed, Held
<1>3. SocketIsOurs' /\ AnswerIsOurs' /\ StatusIsOurs'
  BY <1>1 DEF IInv, SocketIsOurs, AnswerIsOurs, StatusIsOurs, Held
<1>4. PortsTell'
  BY <1>1 DEF IInv, PortsTell, Held
<1> QED
  BY <1>2, <1>3, <1>4 DEF IInv

\* Reading the answer, or giving up.
LEMMA HearKeeps == ASSUME IInv, ReadStatus \/ TimeOut PROVE IInv'
<1>1. /\ call = "waiting" /\ call' = "stop"
      /\ UNCHANGED <<upload, _sock, _srcport, chip, asked, stored, server>>
      /\ status' = chip[_sock].received \/ status' = 2
  BY DEF ReadStatus, TimeOut, remote
<1>2. Typed' /\ SocketIsOurs' /\ PortsTell'
  BY <1>1 DEF IInv, Typed, SocketIsOurs, PortsTell, Held
<1>3. AnswerIsOurs' /\ StatusIsOurs'
  BY <1>1 DEF IInv, AnswerIsOurs, StatusIsOurs, OK
<1> QED
  BY <1>2, <1>3 DEF IInv

LEMMA DisconnectKeeps == ASSUME IInv, Disconnect PROVE IInv'
<1>1. /\ call = "stop" /\ call' = "closing"
      /\ UNCHANGED <<status, upload, _sock, _srcport, asked, stored, server>>
      /\ \E st \in States : chip' = [chip EXCEPT ![_sock].status = st]
  BY DEF Disconnect, remote, States
<1>2. Typed' /\ SocketIsOurs'
  BY <1>1 DEF IInv, Typed, SocketIsOurs, Held
<1>3. PortsTell' /\ AnswerIsOurs' /\ StatusIsOurs'
  BY <1>1 DEF IInv, PortsTell, AnswerIsOurs, StatusIsOurs, Held
<1> QED
  BY <1>2, <1>3 DEF IInv

\* The end of the call, with a connection or without.
LEMMA EndKeeps == ASSUME IInv, Close \/ NotConnected PROVE IInv'
<1>1. /\ call \in Held /\ call' = "returned"
      /\ UNCHANGED <<upload, _srcport, asked, stored, server>>
      /\ chip' = chip \/ chip' = [chip EXCEPT ![_sock].status = "CLOSED"]
  BY DEF Close, NotConnected, remote, Held
<1>2. Typed'
  BY <1>1 DEF IInv, Typed, Held, SocketIsOurs, States
<1>3. PortsTell'
  BY <1>1 DEF IInv, PortsTell, Held
<1>4. SocketIsOurs' /\ AnswerIsOurs' /\ StatusIsOurs'
  BY <1>1 DEF SocketIsOurs, AnswerIsOurs, StatusIsOurs, Held
<1> QED
  BY <1>2, <1>3, <1>4 DEF IInv

LEMMA ClientKeeps == ASSUME IInv, Client PROVE IInv'
BY ConnectKeeps, SendKeeps, HearKeeps, DisconnectKeeps, EndKeeps DEF Client

-----------------------------------------------------------------------------
(* The chip, the network and the server                                    *)

\* A socket changes its state, and neither its port nor its buffer.
LEMMA SocketKeeps ==
  ASSUME IInv, NEW s \in Sockets, NEW st \in States, chip' = [chip EXCEPT ![s].status = st],
         UNCHANGED <<call, status, upload, _sock, _srcport, asked, stored, server>>
  PROVE  IInv'
<1>1. Typed'
  BY DEF IInv, Typed
<1>2. \A t \in Sockets : chip'[t].port = chip[t].port /\ chip'[t].received = chip[t].received
  BY DEF IInv, Typed
<1>3. SocketIsOurs' /\ PortsTell' /\ StatusIsOurs'
  BY <1>2 DEF IInv, SocketIsOurs, PortsTell, StatusIsOurs
<1>4. AnswerIsOurs'
  BY <1>2 DEF IInv, SocketIsOurs, AnswerIsOurs, Held
<1> QED
  BY <1>1, <1>3, <1>4 DEF IInv

\* An answer reaches the client's socket only when it is to this upload.
LEMMA AnswerKeeps == ASSUME IInv, NEW r \in asked, Answer(r) PROVE IInv'
<1>1. PICK code \in Codes :
        /\ stored' = IF code \in {OK, 0} THEN stored \cup {r.upload} ELSE stored
        /\ chip' = [s \in Sockets |->
             IF chip[s].port = r.port /\ chip[s].status \in {"ESTABLISHED", "FIN_WAIT"}
             THEN [chip[s] EXCEPT !.received = code] ELSE chip[s]]
  BY DEF Answer
<1>2. asked' = asked \ {r} /\ UNCHANGED <<call, status, upload, _sock, _srcport, server>>
  BY DEF Answer
<1>3. code \in Nat
  BY <1>1 DEF IInv, Typed, Codes, OK, None
<1>4. Typed'
  BY <1>1, <1>2, <1>3 DEF IInv, Typed
<1>5. \A s \in Sockets :
        /\ chip'[s].port = chip[s].port
        /\ chip'[s].received = chip[s].received \/ (chip[s].port = r.port /\ chip'[s].received = code)
  BY <1>1 DEF IInv, Typed
<1>6. SocketIsOurs' /\ PortsTell'
  BY <1>2, <1>5 DEF IInv, SocketIsOurs, PortsTell
<1>7. stored \subseteq stored' /\ (code = OK => r.upload \in stored')
  BY <1>1
<1>8. StatusIsOurs'
  BY <1>2, <1>7 DEF IInv, StatusIsOurs
<1>9. AnswerIsOurs'
  <2> SUFFICES ASSUME call \in {"connecting", "waiting"}, chip'[_sock].received = OK
               PROVE  upload \in stored'
    BY <1>2 DEF AnswerIsOurs
  <2>1. _sock \in Sockets /\ chip[_sock].port = _srcport
    BY DEF IInv, SocketIsOurs, Held
  <2>2. CASE chip[_sock].received = OK
    BY <2>2, <1>7 DEF IInv, AnswerIsOurs
  <2>3. CASE chip[_sock].port = r.port /\ code = OK
    BY <2>1, <2>3, <1>7 DEF IInv, PortsTell, Held
  <2> QED
    BY <1>5, <2>1, <2>2, <2>3
<1> QED
  BY <1>4, <1>6, <1>8, <1>9 DEF IInv

LEMMA StutterKeeps ==
  ASSUME IInv, UNCHANGED <<call, status, upload, _sock, _srcport, chip, asked, stored>>,
         server' \in {"up", "slow", "refusing", "down"}
  PROVE  IInv'
BY DEF IInv, Typed, SocketIsOurs, PortsTell, AnswerIsOurs, StatusIsOurs

LEMMA NetKeeps == ASSUME IInv, Net PROVE IInv'
<1>1. ASSUME NEW s \in Sockets, Connecting(s) PROVE IInv'
  <2>1. PICK st \in States : chip' = [chip EXCEPT ![s].status = st]
    BY <1>1 DEF Connecting, States
  <2> QED
    BY <1>1, <2>1, SocketKeeps DEF Connecting, remote
<1>2. ASSUME NEW s \in Sockets, PeerCloses(s) PROVE IInv'
  BY <1>2, SocketKeeps DEF PeerCloses, remote, States
<1> QED
  BY <1>1, <1>2, AnswerKeeps DEF Net

-----------------------------------------------------------------------------

LEMMA NextKeeps == ASSUME IInv, [Next]_vars PROVE IInv'
<1>0. server \in {"up", "slow", "refusing", "down"}
  BY DEF IInv, Typed
<1>1. CASE Populate
  BY <1>0, <1>1, StutterKeeps DEF Populate, Compare, Reset, CheckFirst, Check, Ask, uploadVars, remote
<1>2. CASE HandleResult
  BY <1>2, StartKeeps DEF HandleResult
<1>3. CASE Update
  BY <1>3, ClientKeeps DEF Update
<1>4. CASE Passing
  BY <1>0, <1>4, StutterKeeps DEF Passing, uploadVars, remote
<1>5. CASE Lose
  BY <1>0, <1>5, StutterKeeps DEF Lose
<1>6. CASE Surroundings
  BY <1>6, NetKeeps, StutterKeeps DEF Surroundings, Change
<1>7. CASE UNCHANGED vars
  BY <1>0, <1>7, StutterKeeps DEF vars, uploadVars, remote
<1> QED
  BY <1>1, <1>2, <1>3, <1>4, <1>5, <1>6, <1>7 DEF Next

\* A status of 200 is the status of this upload: the feed has it
\* (updatePachube, ERxPachube.cpp:588-640).
THEOREM Success == Spec => []StatusIsOurs
<1>1. IInv /\ [Next]_vars => IInv'
  BY NextKeeps
<1>2. IInv => StatusIsOurs
  BY DEF IInv
<1> QED
  BY Starts, <1>1, <1>2, PTL DEF Spec

-----------------------------------------------------------------------------
(* The rate of the requests.  The minutes of the clock divide the time     *)
(* into stretches: one ends with its minute, or when the clock is set.  In *)
(* a stretch the service asks once, since it stamps the minute; and two    *)
(* stretches that no sync cuts short are a minute apart.                   *)

\* Quotient and remainder are what they are made of.
LEMMA DivUnique ==
  ASSUME NEW d \in Nat \ {0}, NEW q \in Nat, NEW r \in 0 .. d - 1
  PROVE  (d * q + r) % d = r /\ (d * q + r) \div d = q
<1> DEFINE n == d * q + r
           p == n \div d
           s == n % d
<1>1. d * q \in Nat
  OBVIOUS
<1>2. n \in Nat
  BY <1>1
<1>3. p \in Nat /\ s \in 0 .. d - 1 /\ n = d * p + s
  <2> HIDE DEF n
  <2>1. QED
    BY <1>2
<1>4. d * (q - p) = s - r
  BY <1>3
<1> HIDE DEF p, s
<1>5. CASE q - p >= 1
  <2>1. d * (q - p) >= d
    <3>1. PICK k \in Nat : q - p = 1 + k
      <4>1. (q - p) - 1 \in Nat
        BY <1>5, <1>3
      <4>2. q - p = 1 + ((q - p) - 1)
        BY <1>3
      <4>3. QED
        BY <4>1, <4>2
    <3>2. d * k \in Nat
      OBVIOUS
    <3>3. d * (1 + k) = d + d * k
      OBVIOUS
    <3>4. QED
      BY <3>1, <3>2, <3>3
  <2>2. QED
    BY <1>3, <1>4, <2>1
<1>6. CASE p - q >= 1
  <2>1. d * (q - p) <= - d
    <3>1. PICK k \in Nat : p - q = 1 + k
      <4>1. (p - q) - 1 \in Nat
        BY <1>6, <1>3
      <4>2. p - q = 1 + ((p - q) - 1)
        BY <1>3
      <4>3. QED
        BY <4>1, <4>2
    <3>2. d * k \in Nat
      OBVIOUS
    <3>3. d * (q - p) = - (d + d * k)
      BY <3>1, <1>3
    <3>4. QED
      BY <3>1, <3>2, <3>3
  <2>2. QED
    BY <1>3, <1>4, <2>1
<1>7. p = q
  BY <1>3, <1>5, <1>6
<1>8. s = r
  BY <1>3, <1>4, <1>7
<1>9. QED
  BY <1>7, <1>8 DEF p, s

Second == CaughtUp % SECS_PER_MIN        \* the ticks since the minute began
Since == SyncInterval - Left             \* the ticks since the last sync, if that was just now

\* This stretch is asked for.
Settled == ~m_bIsFirstCommand /\ at # "ask" /\ last_connect = Minute(CaughtUp)

Ages == [1 .. Limit + 1 -> 0 .. SECS_PER_MIN]
Sorted(ages) == \A i \in 1 .. Limit : ages[i] <= ages[i + 1]

\* How long ago the requests are, c ticks into a minute and s ticks after a sync,
\* when the last k of them may be of this stretch.  Unless a sync was less than a minute
\* ago, one may be of the minute before; otherwise two are from the minute before the
\* sync, and one is of the stretch between the sync and the end of its minute.
RateAt(ages, c, s, k) ==
  IF s >= SECS_PER_MIN THEN ages[k + 1] > c /\ ages[k + 2] = SECS_PER_MIN
  ELSE IF s <= c THEN ages[k + 1] >= s /\ ages[k + 3] = SECS_PER_MIN
  ELSE ages[k + 1] > c /\ ages[k + 2] >= s /\ ages[k + 4] = SECS_PER_MIN

InStretch == IF Settled THEN 1 ELSE 0

ClockTyped ==
  /\ sysTime \in Times /\ ahead \in Nat /\ untilSync \in 0 .. SyncInterval
  /\ m_bIsFirstCommand \in BOOLEAN
  /\ requests \in Ages /\ Sorted(requests)

RateInv == ClockTyped /\ RateAt(requests, Second, Since, InStretch)

LEMMA Lengths ==
  /\ SECS_PER_MIN \in Nat /\ SECS_PER_MIN > 0
  /\ SECS_PER_HOUR \in Nat /\ SECS_PER_HOUR > 0
  /\ SyncInterval \in Nat /\ SyncInterval > 0
  /\ SECS_PER_HOUR % SECS_PER_MIN = 0
BY ClockAssumption

\* The next tick of the hour.
LEMMA NextTime ==
  ASSUME NEW n \in Nat
  PROVE  /\ n % SECS_PER_HOUR \in Times
         /\ (n + 1) % SECS_PER_HOUR = IF (n % SECS_PER_HOUR) + 1 = SECS_PER_HOUR THEN 0
                                      ELSE (n % SECS_PER_HOUR) + 1
<1> DEFINE d == SECS_PER_HOUR
           q == n \div d
           r == n % d
<1>1. d \in Nat /\ d > 0
  BY Lengths
<1> HIDE DEF d
<1>2. q \in Nat /\ r \in 0 .. d - 1 /\ n = d * q + r
  BY <1>1
<1> HIDE DEF q, r
<1>3. CASE r + 1 = d
  <2>1. n + 1 = d * (q + 1) + 0
    BY <1>1, <1>2, <1>3
  <2>2. q + 1 \in Nat /\ 0 \in 0 .. d - 1 /\ d \in Nat \ {0}
    BY <1>1, <1>2
  <2>3. (n + 1) % d = 0
    BY <2>1, <2>2, DivUnique
  <2>4. QED
    BY <1>2, <1>3, <2>3 DEF r, d, Times
<1>4. CASE r + 1 # d
  <2>1. n + 1 = d * q + (r + 1)
    BY <1>1, <1>2
  <2>2. r + 1 \in 0 .. d - 1 /\ d \in Nat \ {0}
    BY <1>1, <1>2, <1>4
  <2>3. (n + 1) % d = r + 1
    BY <1>2, <2>1, <2>2, DivUnique
  <2>4. QED
    BY <1>2, <1>4, <2>3 DEF r, d, Times
<1>5. QED
  BY <1>3, <1>4

\* The next tick of the minute: it is the same minute, unless the tick was its last.
LEMMA NextSecond ==
  ASSUME NEW t \in Times
  PROVE  /\ t % SECS_PER_MIN \in 0 .. SECS_PER_MIN - 1
         /\ t + 1 = SECS_PER_HOUR => (t % SECS_PER_MIN) + 1 = SECS_PER_MIN
         /\ 0 % SECS_PER_MIN = 0
         /\ (t % SECS_PER_MIN) + 1 = SECS_PER_MIN => (t + 1) % SECS_PER_MIN = 0
         /\ (t % SECS_PER_MIN) + 1 < SECS_PER_MIN =>
              /\ (t + 1) % SECS_PER_MIN = (t % SECS_PER_MIN) + 1
              /\ Minute(t + 1) = Minute(t)
<1> DEFINE d == SECS_PER_MIN
           q == t \div d
           r == t % d
<1>1. d \in Nat /\ d > 0 /\ t \in Nat /\ d \in Nat \ {0}
  BY Lengths DEF Times
<1> HIDE DEF d
<1>2. q \in Nat /\ r \in 0 .. d - 1 /\ t = d * q + r
  BY <1>1
<1> HIDE DEF q, r
<1>3. 0 % d = 0
  <2>1. 0 = d * 0 + 0 /\ 0 \in 0 .. d - 1
    BY <1>1
  <2>2. QED
    BY <1>1, <2>1, DivUnique
<1>4. ASSUME r + 1 = d PROVE (t + 1) % d = 0
  <2>1. t + 1 = d * (q + 1) + 0
    BY <1>1, <1>2, <1>4
  <2>2. q + 1 \in Nat /\ 0 \in 0 .. d - 1
    BY <1>1, <1>2
  <2>3. QED
    BY <1>1, <2>1, <2>2, DivUnique
<1>5. ASSUME r + 1 < d PROVE (t + 1) % d = r + 1 /\ (t + 1) \div d = q
  <2>1. t + 1 = d * q + (r + 1) /\ r + 1 \in 0 .. d - 1
    BY <1>1, <1>2, <1>5
  <2>2. QED
    BY <1>1, <1>2, <2>1, DivUnique
<1>6. t + 1 = SECS_PER_HOUR => r + 1 = d
  BY <1>1, <1>2, <1>5, Lengths DEF d
<1>7. QED
  BY <1>2, <1>3, <1>4, <1>5, <1>6 DEF q, r, d, Minute

\* The requests when one more is made, or when a tick goes by.
Pushed(ages) == [i \in 1 .. Limit + 1 |-> IF i = 1 THEN 0 ELSE ages[i - 1]]
Aged(ages) ==
  [i \in 1 .. Limit + 1 |-> IF ages[i] < SECS_PER_MIN THEN ages[i] + 1 ELSE SECS_PER_MIN]

LEMMA SixAges ==
  ASSUME NEW ages \in Ages, Sorted(ages)
  PROVE  /\ SECS_PER_MIN \in Nat /\ SECS_PER_MIN > 0
         /\ ages[1] \in 0 .. SECS_PER_MIN /\ ages[2] \in 0 .. SECS_PER_MIN
         /\ ages[3] \in 0 .. SECS_PER_MIN /\ ages[4] \in 0 .. SECS_PER_MIN
         /\ ages[5] \in 0 .. SECS_PER_MIN /\ ages[6] \in 0 .. SECS_PER_MIN
         /\ ages[1] <= ages[2] /\ ages[2] <= ages[3] /\ ages[3] <= ages[4]
         /\ ages[4] <= ages[5] /\ ages[5] <= ages[6]
BY Lengths DEF Ages, Limit, Sorted

LEMMA PushedAges ==
  ASSUME NEW ages \in Ages, Sorted(ages)
  PROVE  /\ Pushed(ages) \in Ages /\ Sorted(Pushed(ages))
         /\ Pushed(ages)[1] = 0 /\ Pushed(ages)[2] = ages[1] /\ Pushed(ages)[3] = ages[2]
         /\ Pushed(ages)[4] = ages[3] /\ Pushed(ages)[5] = ages[4] /\ Pushed(ages)[6] = ages[5]
<1>1. Pushed(ages) \in Ages
  BY Lengths DEF Pushed, Ages, Limit
<1>2. Sorted(Pushed(ages))
  <2>1. SUFFICES ASSUME NEW i \in 1 .. 5 PROVE Pushed(ages)[i] <= Pushed(ages)[i + 1]
    BY DEF Sorted, Limit
  <2>2. Pushed(ages)[i + 1] = ages[i]
    BY DEF Pushed, Limit
  <2>3. CASE i = 1
    BY <2>2, <2>3, Lengths DEF Pushed, Limit, Ages
  <2>4. CASE i # 1
    <3>1. i - 1 \in 1 .. 5 /\ (i - 1) + 1 = i
      BY <2>4
    <3>2. ages[i - 1] <= ages[(i - 1) + 1]
      BY <3>1 DEF Sorted, Limit
    <3>3. Pushed(ages)[i] = ages[i - 1]
      BY <2>4 DEF Pushed, Limit
    <3>4. QED
      BY <2>2, <3>1, <3>2, <3>3
  <2>5. QED
    BY <2>3, <2>4
<1>3. QED
  BY <1>1, <1>2 DEF Pushed, Limit

LEMMA AgedAges ==
  ASSUME NEW ages \in Ages, Sorted(ages)
  PROVE  /\ Aged(ages) \in Ages /\ Sorted(Aged(ages))
         /\ \A i \in 1 .. 6 : Aged(ages)[i] = IF ages[i] < SECS_PER_MIN THEN ages[i] + 1
                                              ELSE SECS_PER_MIN
<1>1. \A i \in 1 .. 6 : Aged(ages)[i] = IF ages[i] < SECS_PER_MIN THEN ages[i] + 1
                                        ELSE SECS_PER_MIN
  BY DEF Aged, Limit
<1>2. \A i \in 1 .. 6 : ages[i] \in 0 .. SECS_PER_MIN
  BY DEF Ages, Limit
<1>3. Aged(ages) \in Ages
  BY <1>2, Lengths DEF Aged, Ages, Limit
<1>4. Sorted(Aged(ages))
  <2>1. SUFFICES ASSUME NEW i \in 1 .. 5 PROVE Aged(ages)[i] <= Aged(ages)[i + 1]
    BY DEF Sorted, Limit
  <2>2. i \in 1 .. 6 /\ i + 1 \in 1 .. 6
    OBVIOUS
  <2>3. ages[i] <= ages[i + 1]
    BY DEF Sorted, Limit
  <2>4. QED
    BY <1>1, <1>2, <2>2, <2>3, Lengths
<1>5. QED
  BY <1>1, <1>3, <1>4

\* The clock is set: the stretch is a new one.
LEMMA RateSynced ==
  ASSUME NEW ages \in Ages, Sorted(ages), NEW c \in Nat, NEW s \in Nat, s >= SECS_PER_MIN,
         NEW k \in {0, 1}, RateAt(ages, c, s, k), NEW d \in Nat, NEW l \in {0, 1}
  PROVE  RateAt(ages, d, 0, l)
<1>1. /\ SECS_PER_MIN \in Nat /\ SECS_PER_MIN > 0
      /\ ages[1] \in 0 .. SECS_PER_MIN /\ ages[2] \in 0 .. SECS_PER_MIN
      /\ ages[3] \in 0 .. SECS_PER_MIN /\ ages[4] \in 0 .. SECS_PER_MIN
      /\ ages[1] <= ages[2] /\ ages[2] <= ages[3] /\ ages[3] <= ages[4]
  BY SixAges
<1>2. ages[3] = SECS_PER_MIN /\ ages[4] = SECS_PER_MIN
  <2>1. CASE k = 0
    BY <1>1, <2>1 DEF RateAt
  <2>2. CASE k = 1
    BY <1>1, <2>2 DEF RateAt
  <2>3. QED
    BY <2>1, <2>2
<1>3. CASE l = 0
  BY <1>1, <1>2, <1>3 DEF RateAt
<1>4. CASE l = 1
  BY <1>1, <1>2, <1>4 DEF RateAt
<1>5. QED
  BY <1>3, <1>4

\* A request in a stretch that was not asked for yet.
LEMMA RatePushed ==
  ASSUME NEW ages \in Ages, Sorted(ages), NEW c, NEW s, RateAt(ages, c, s, 0)
  PROVE  RateAt(Pushed(ages), c, s, 1)
<1> DEFINE new == Pushed(ages)
<1>1. /\ new[2] = ages[1] /\ new[3] = ages[2] /\ new[4] = ages[3] /\ new[5] = ages[4]
  BY PushedAges
<1> HIDE DEF new
<1>2. RateAt(new, c, s, 1)
  BY <1>1 DEF RateAt
<1>3. QED
  BY <1>2 DEF new

\* A stretch may become settled without a request.
LEMMA RateSettled ==
  ASSUME NEW ages \in Ages, Sorted(ages), NEW c \in Nat, NEW s \in Nat,
         NEW k \in {0, 1}, RateAt(ages, c, s, k), NEW l \in {0, 1}, k <= l
  PROVE  RateAt(ages, c, s, l)
<1>1. /\ SECS_PER_MIN \in Nat
      /\ ages[1] \in 0 .. SECS_PER_MIN /\ ages[2] \in 0 .. SECS_PER_MIN
      /\ ages[3] \in 0 .. SECS_PER_MIN /\ ages[4] \in 0 .. SECS_PER_MIN
      /\ ages[5] \in 0 .. SECS_PER_MIN
      /\ ages[1] <= ages[2] /\ ages[2] <= ages[3] /\ ages[3] <= ages[4] /\ ages[4] <= ages[5]
  BY SixAges
<1>2. CASE k = l
  BY <1>2
<1>3. CASE k = 0 /\ l = 1
  BY <1>1, <1>3 DEF RateAt
<1>4. QED
  BY <1>2, <1>3

\* A tick goes by: in the same minute, or as its last one.
LEMMA RateAged ==
  ASSUME NEW ages \in Ages, Sorted(ages), NEW c \in 0 .. SECS_PER_MIN - 1, NEW s \in Nat,
         NEW k \in {0, 1}, RateAt(ages, c, s, k),
         NEW d, d = IF c + 1 = SECS_PER_MIN THEN 0 ELSE c + 1,
         NEW t \in Nat, t = s + 1 \/ (s >= SECS_PER_MIN /\ t = s),
         NEW l \in {0, 1}, l = IF c + 1 = SECS_PER_MIN THEN 0 ELSE k
  PROVE  RateAt(Aged(ages), d, t, l)
<1> DEFINE new == Aged(ages)
           M == SECS_PER_MIN
<1>1. \A i \in 1 .. 6 : new[i] = IF ages[i] < M THEN ages[i] + 1 ELSE M
  BY AgedAges
<1> HIDE DEF new
<1>2. /\ M \in Nat /\ M > 0
      /\ ages[1] \in 0 .. M /\ ages[2] \in 0 .. M
      /\ ages[3] \in 0 .. M /\ ages[4] \in 0 .. M /\ ages[5] \in 0 .. M
      /\ ages[1] <= ages[2] /\ ages[2] <= ages[3] /\ ages[3] <= ages[4] /\ ages[4] <= ages[5]
  BY SixAges
<1>3. /\ new[1] = IF ages[1] < M THEN ages[1] + 1 ELSE M
      /\ new[2] = IF ages[2] < M THEN ages[2] + 1 ELSE M
      /\ new[3] = IF ages[3] < M THEN ages[3] + 1 ELSE M
      /\ new[4] = IF ages[4] < M THEN ages[4] + 1 ELSE M
      /\ new[5] = IF ages[5] < M THEN ages[5] + 1 ELSE M
  BY <1>1
<1>4. c \in Nat /\ c < M /\ d = IF c + 1 = M THEN 0 ELSE c + 1
  BY <1>2
<1>5. CASE k = 0
  <2>1. IF s >= M THEN ages[1] > c /\ ages[2] = M
        ELSE IF s <= c THEN ages[1] >= s /\ ages[3] = M
        ELSE ages[1] > c /\ ages[2] >= s /\ ages[4] = M
    BY <1>5 DEF RateAt
  <2>2. CASE c + 1 = M
    <3>1. l = 0 /\ d = 0
      BY <1>4, <2>2
    <3>2. IF t >= M THEN new[1] > d /\ new[2] = M
          ELSE IF t <= d THEN new[1] >= t /\ new[3] = M
          ELSE new[1] > d /\ new[2] >= t /\ new[4] = M
      BY <1>2, <1>3, <1>4, <2>1, <2>2, <3>1
    <3>3. QED
      BY <3>1, <3>2 DEF RateAt, new
  <2>3. CASE c + 1 # M
    <3>1. l = 0 /\ d = c + 1
      BY <1>5, <1>4, <2>3
    <3>2. IF t >= M THEN new[1] > d /\ new[2] = M
          ELSE IF t <= d THEN new[1] >= t /\ new[3] = M
          ELSE new[1] > d /\ new[2] >= t /\ new[4] = M
      BY <1>2, <1>3, <1>4, <2>1, <2>3, <3>1
    <3>3. QED
      BY <3>1, <3>2 DEF RateAt, new
  <2>4. QED
    BY <2>2, <2>3
<1>6. CASE k = 1
  <2>1. IF s >= M THEN ages[2] > c /\ ages[3] = M
        ELSE IF s <= c THEN ages[2] >= s /\ ages[4] = M
        ELSE ages[2] > c /\ ages[3] >= s /\ ages[5] = M
    BY <1>6 DEF RateAt
  <2>2. CASE c + 1 = M
    <3>1. l = 0 /\ d = 0
      BY <1>4, <2>2
    <3>2. IF t >= M THEN new[1] > d /\ new[2] = M
          ELSE IF t <= d THEN new[1] >= t /\ new[3] = M
          ELSE new[1] > d /\ new[2] >= t /\ new[4] = M
      BY <1>2, <1>3, <1>4, <2>1, <2>2, <3>1
    <3>3. QED
      BY <3>1, <3>2 DEF RateAt, new
  <2>3. CASE c + 1 # M
    <3>1. l = 1 /\ d = c + 1
      BY <1>6, <1>4, <2>3
    <3>2. IF t >= M THEN new[2] > d /\ new[3] = M
          ELSE IF t <= d THEN new[2] >= t /\ new[4] = M
          ELSE new[2] > d /\ new[3] >= t /\ new[5] = M
      BY <1>2, <1>3, <1>4, <2>1, <2>3, <3>1
    <3>3. QED
      BY <3>1, <3>2 DEF RateAt, new
  <2>4. QED
    BY <2>2, <2>3
<1>9. QED
  BY <1>5, <1>6 DEF new

-----------------------------------------------------------------------------

LEMMA RateStarts == ASSUME Init, SyncInterval >= SECS_PER_MIN PROVE RateInv
<1> USE Lengths
<1>1. ClockTyped
  <2>1. requests \in Ages /\ Sorted(requests)
    BY DEF Init, Ages, Sorted, Limit
  <2>2. QED
    BY <2>1 DEF Init, ClockInit, ClockTyped, Times
<1>2. Since = SyncInterval
  BY DEF Init, ClockInit, Since, Left
<1>3. requests[1] = SECS_PER_MIN /\ requests[2] = SECS_PER_MIN
  BY DEF Init, Limit
<1>4. Second \in 0 .. SECS_PER_MIN - 1
  <2>1. CaughtUp \in Times
    BY <1>1, NextTime DEF ClockTyped, CaughtUp, Times
  <2>2. QED
    BY <2>1, NextSecond DEF Second
<1>5. RateAt(requests, Second, Since, 0) /\ RateAt(requests, Second, Since, 1)
  <2>1. requests[3] = SECS_PER_MIN
    BY DEF Init, Limit
  <2>2. QED
    BY <1>2, <1>3, <1>4, <2>1 DEF RateAt
<1>6. QED
  BY <1>1, <1>5 DEF RateInv, InStretch

\* What the operators of the clock range over.
LEMMA ClockRanges ==
  ASSUME ClockTyped
  PROVE  CaughtUp \in Times /\ Second \in 0 .. SECS_PER_MIN - 1 /\ Since \in 0 .. SyncInterval
         /\ Left \in 0 .. SyncInterval
<1>1. sysTime + ahead \in Nat
  BY DEF ClockTyped, Times
<1>2. CaughtUp \in Times
  BY <1>1, NextTime DEF CaughtUp
<1>3. Left \in 0 .. SyncInterval
  BY Lengths DEF ClockTyped, Left
<1>4. QED
  BY <1>2, <1>3, NextSecond, Lengths DEF Second, Since

\* Reading the clock brings it up to date, or sets it.
LEMMA ClockRead ==
  ASSUME ClockTyped, NEW t \in Times, Now(t)
  PROVE  /\ CaughtUp' = t
         /\ sysTime' \in Times /\ ahead' \in Nat /\ untilSync' \in 0 .. SyncInterval
         /\ \/ t = CaughtUp /\ Since' = Since
            \/ Since = SyncInterval /\ Since' = 0
<1> USE Lengths
<1>1. sysTime' = t /\ ahead' = 0
  BY DEF Now
<1>2. t + 0 = t /\ t \in Nat /\ t < SECS_PER_HOUR
  BY DEF Times
<1>3. CaughtUp' = t
  <2>1. t % SECS_PER_HOUR = t
    BY <1>2
  <2>2. QED
    BY <1>1, <1>2, <2>1 DEF CaughtUp
<1>4. Left \in 0 .. SyncInterval
  BY ClockRanges
<1>5. CASE Synced(t)
  <2>1. Left = 0 /\ untilSync' = SyncInterval
    BY <1>5 DEF Synced
  <2>2. Left' = SyncInterval
    BY <1>1, <2>1 DEF Left
  <2>3. QED
    BY <1>1, <1>3, <2>1, <2>2 DEF Since
<1>6. CASE Unsynced(t)
  <2>1. t = CaughtUp /\ untilSync' = Left
    BY <1>6 DEF Unsynced
  <2>2. Left' = Left
    BY <1>1, <1>4, <2>1 DEF Left
  <2>3. QED
    BY <1>1, <1>3, <1>4, <2>1, <2>2 DEF Since
<1>7. QED
  BY <1>5, <1>6 DEF Now

\* A step of Populate that reads the clock and does not ask keeps the rate, if it
\* settles no less than before when the clock goes on.
LEMMA ReadKeepsRate ==
  ASSUME RateInv, SyncInterval >= SECS_PER_MIN, NEW t \in Times, Now(t), requests' = requests,
         m_bIsFirstCommand' = m_bIsFirstCommand,
         t = CaughtUp /\ Settled => Settled'
  PROVE  RateInv'
<1>1. ClockTyped /\ RateAt(requests, Second, Since, InStretch)
  BY DEF RateInv
<1>2. /\ CaughtUp' = t
      /\ sysTime' \in Times /\ ahead' \in Nat /\ untilSync' \in 0 .. SyncInterval
      /\ \/ t = CaughtUp /\ Since' = Since
         \/ Since = SyncInterval /\ Since' = 0
  BY <1>1, ClockRead
<1>3. ClockTyped'
  BY <1>1, <1>2 DEF ClockTyped
<1>4. Second' \in 0 .. SECS_PER_MIN - 1
  BY <1>2, NextSecond DEF Second
<1>5. requests \in Ages /\ Sorted(requests) /\ Since \in Nat /\ Second \in Nat
  BY <1>1, ClockRanges, Lengths DEF ClockTyped
<1>6. CASE t = CaughtUp /\ Since' = Since
  <2>1. Second' = Second
    BY <1>2, <1>6 DEF Second
  <2>2. InStretch \in {0, 1} /\ InStretch' \in {0, 1} /\ InStretch <= InStretch'
    BY <1>6 DEF InStretch
  <2>3. RateAt(requests, Second, Since, InStretch')
    BY <1>1, <1>5, <2>2, RateSettled
  <2>4. QED
    BY <1>3, <1>6, <2>1, <2>3 DEF RateInv
<1>7. CASE Since = SyncInterval /\ Since' = 0
  <2>1. InStretch \in {0, 1} /\ InStretch' \in {0, 1} /\ Second' \in Nat
    BY <1>4 DEF InStretch
  <2>2. RateAt(requests, Second', 0, InStretch')
    BY <1>1, <1>5, <1>7, <2>1, RateSynced
  <2>3. QED
    BY <1>3, <1>7, <2>2 DEF RateInv
<1>8. QED
  BY <1>2, <1>6, <1>7

LEMMA CompareKeepsRate ==
  ASSUME RateInv, SyncInterval >= SECS_PER_MIN, Compare PROVE RateInv'
<1>1. PICK t \in Times : Now(t) /\ at' = IF Minute(t) < last_connect THEN "reset" ELSE "check"
  BY DEF Compare
<1>2. UNCHANGED <<last_connect, m_bIsFirstCommand, requests>>
  BY DEF Compare
<1>3. ClockTyped /\ CaughtUp' = t
  BY <1>1, ClockRead DEF RateInv
<1>4. t = CaughtUp /\ Settled => Settled'
  BY <1>1, <1>2, <1>3 DEF Settled
<1>5. QED
  BY <1>1, <1>2, <1>4, ReadKeepsRate

LEMMA ResetKeepsRate ==
  ASSUME RateInv, SyncInterval >= SECS_PER_MIN, Reset PROVE RateInv'
<1>1. PICK t \in Times : Now(t) /\ last_connect' = Minute(t)
  BY DEF Reset
<1>2. UNCHANGED <<m_bIsFirstCommand, requests>> /\ at' = "check"
  BY DEF Reset, history
<1>3. ClockTyped /\ CaughtUp' = t
  BY <1>1, ClockRead DEF RateInv
<1>4. t = CaughtUp /\ Settled => Settled'
  BY <1>1, <1>2, <1>3 DEF Settled
<1>5. QED
  BY <1>1, <1>2, <1>4, ReadKeepsRate

\* Nothing is due in a stretch that is settled.
LEMMA CheckKeepsRate ==
  ASSUME RateInv, SyncInterval >= SECS_PER_MIN, Check PROVE RateInv'
<1>1. PICK t \in Times : Now(t) /\ at' = IF Due(Minute(t)) THEN "ask" ELSE "host"
  BY DEF Check
<1>2. UNCHANGED <<last_connect, m_bIsFirstCommand, requests>>
  BY DEF Check, history
<1>3. ClockTyped /\ CaughtUp' = t
  BY <1>1, ClockRead DEF RateInv
<1>4. t = CaughtUp /\ Settled => Settled'
  <2>1. SUFFICES ASSUME t = CaughtUp, Settled PROVE Settled'
    OBVIOUS
  <2>2. last_connect = Minute(t)
    BY <2>1 DEF Settled
  <2>3. Minute(t) \in Nat
    BY Lengths DEF Minute, Times
  <2>4. ~Due(Minute(t))
    BY <2>2, <2>3 DEF Due, UPDATE_INTERVAL
  <2>5. QED
    BY <1>1, <1>2, <1>3, <2>1, <2>2, <2>4 DEF Settled
<1>5. QED
  BY <1>1, <1>2, <1>4, ReadKeepsRate

\* A request settles its stretch, which had none.
LEMMA AskKeepsRate ==
  ASSUME RateInv, SyncInterval >= SECS_PER_MIN, Ask PROVE RateInv'
<1>1. PICK t \in Times : Now(t) /\ last_connect' = Minute(t)
  BY DEF Ask, Stamp
<1>2. at = "ask" /\ at' = "host" /\ ~m_bIsFirstCommand' /\ requests' = Pushed(requests)
  BY DEF Ask, Pushed
<1>3. ClockTyped /\ RateAt(requests, Second, Since, 0)
  <2>1. InStretch = 0
    BY <1>2 DEF Settled, InStretch
  <2>2. QED
    BY <2>1 DEF RateInv
<1>4. /\ CaughtUp' = t
      /\ sysTime' \in Times /\ ahead' \in Nat /\ untilSync' \in 0 .. SyncInterval
      /\ \/ t = CaughtUp /\ Since' = Since
         \/ Since = SyncInterval /\ Since' = 0
  BY <1>1, <1>3, ClockRead
<1>5. requests \in Ages /\ Sorted(requests) /\ Since \in Nat /\ Second \in Nat
  BY <1>3, ClockRanges, Lengths DEF ClockTyped
<1>6. ClockTyped'
  <2>1. m_bIsFirstCommand' \in BOOLEAN
    BY DEF Ask
  <2>2. QED
    BY <1>2, <1>4, <1>5, <2>1, PushedAges DEF ClockTyped
<1>7. Second' \in 0 .. SECS_PER_MIN - 1 /\ Second' \in Nat
  BY <1>4, NextSecond, Lengths DEF Second
<1>8. RateAt(requests, Second', Since', 0)
  <2>1. CASE t = CaughtUp /\ Since' = Since
    BY <1>3, <1>4, <2>1 DEF Second
  <2>2. CASE Since = SyncInterval /\ Since' = 0
    BY <1>3, <1>5, <1>7, <2>2, RateSynced
  <2>3. QED
    BY <1>4, <2>1, <2>2
<1>9. Since' \in Nat
  BY <1>4, <1>5
<1>10. RateAt(Pushed(requests), Second', Since', 1)
  BY <1>5, <1>7, <1>8, <1>9, RatePushed
<1>11. InStretch' = 1
  BY <1>1, <1>2, <1>4 DEF Settled, InStretch
<1>12. RateAt(requests', Second', Since', InStretch')
  BY <1>2, <1>10, <1>11
<1>13. QED
  BY <1>6, <1>12 DEF RateInv

LEMMA PassingKeepsRate ==
  ASSUME RateInv, SyncInterval >= SECS_PER_MIN, Passing PROVE RateInv'
<1>1. /\ ahead' = ahead + 1 /\ requests' = Aged(requests)
      /\ UNCHANGED <<sysTime, untilSync, at, last_connect, m_bIsFirstCommand>>
  BY DEF Passing, Tick, Aged, service
<1>2. ClockTyped /\ RateAt(requests, Second, Since, InStretch)
  BY DEF RateInv
<1>3. requests \in Ages /\ Sorted(requests) /\ Since \in Nat
      /\ Second \in 0 .. SECS_PER_MIN - 1 /\ CaughtUp \in Times
  BY <1>2, ClockRanges, Lengths DEF ClockTyped
<1>4. CaughtUp' = IF CaughtUp + 1 = SECS_PER_HOUR THEN 0 ELSE CaughtUp + 1
  <2> DEFINE n == sysTime + ahead
  <2>1. n \in Nat /\ sysTime' + ahead' = n + 1
    BY <1>1, <1>2 DEF ClockTyped, Times
  <2> HIDE DEF n
  <2>2. (n + 1) % SECS_PER_HOUR = IF (n % SECS_PER_HOUR) + 1 = SECS_PER_HOUR THEN 0
                                  ELSE (n % SECS_PER_HOUR) + 1
    BY <2>1, NextTime
  <2>3. CaughtUp = n % SECS_PER_HOUR
    BY DEF CaughtUp, n
  <2>4. CaughtUp' = (n + 1) % SECS_PER_HOUR
    BY <2>1 DEF CaughtUp
  <2>5. QED
    BY <2>2, <2>3, <2>4
<1>5. /\ Second' = IF Second + 1 = SECS_PER_MIN THEN 0 ELSE Second + 1
      /\ Second + 1 < SECS_PER_MIN => Minute(CaughtUp') = Minute(CaughtUp)
  <2>1. /\ CaughtUp + 1 = SECS_PER_HOUR => Second + 1 = SECS_PER_MIN
        /\ 0 % SECS_PER_MIN = 0
        /\ Second + 1 = SECS_PER_MIN => (CaughtUp + 1) % SECS_PER_MIN = 0
        /\ Second + 1 < SECS_PER_MIN =>
             /\ (CaughtUp + 1) % SECS_PER_MIN = Second + 1
             /\ Minute(CaughtUp + 1) = Minute(CaughtUp)
    BY <1>3, NextSecond DEF Second
  <2>2. Second + 1 = SECS_PER_MIN \/ Second + 1 < SECS_PER_MIN
    BY <1>3, Lengths
  <2>3. Second' = CaughtUp' % SECS_PER_MIN
    BY DEF Second
  <2>4. QED
    BY <1>3, <1>4, <2>1, <2>2, <2>3, Lengths
<1>6. Since' \in Nat /\ (Since' = Since + 1 \/ (Since >= SECS_PER_MIN /\ Since' = Since))
  <2>1. untilSync \in 0 .. SyncInterval /\ ahead \in Nat
    BY <1>2 DEF ClockTyped
  <2>2. CASE ahead < untilSync
    BY <1>1, <2>1, <2>2, Lengths DEF Since, Left
  <2>3. CASE ~(ahead < untilSync)
    BY <1>1, <2>1, <2>3, Lengths DEF Since, Left
  <2>4. QED
    BY <2>2, <2>3
<1>7. InStretch \in {0, 1} /\ InStretch' \in {0, 1}
  BY DEF InStretch
<1>8. Second + 1 < SECS_PER_MIN => InStretch' = InStretch
  BY <1>1, <1>5 DEF Settled, InStretch
<1>9. RateAt(Aged(requests), Second', Since', InStretch')
  <2>1. PICK l \in {0, 1} : l = IF Second + 1 = SECS_PER_MIN THEN 0 ELSE InStretch
    BY <1>7
  <2>2. RateAt(Aged(requests), Second', Since', l)
    BY <1>2, <1>3, <1>5, <1>6, <1>7, <2>1, RateAged
  <2>3. l <= InStretch'
    BY <1>3, <1>7, <1>8, <2>1, Lengths
  <2>4. Aged(requests) \in Ages /\ Sorted(Aged(requests)) /\ Second' \in Nat
    BY <1>3, <1>5, AgedAges, Lengths
  <2>5. QED
    BY <1>6, <1>7, <2>2, <2>3, <2>4, RateSettled
<1>10. ClockTyped'
  BY <1>1, <1>2, AgedAges DEF ClockTyped
<1>11. QED
  BY <1>1, <1>9, <1>10 DEF RateInv

\* Nothing that the rate depends on changes.
LEMMA OthersKeepRate ==
  ASSUME RateInv,
         UNCHANGED <<sysTime, ahead, untilSync, m_bIsFirstCommand, last_connect, requests>>,
         at' = at \/ (m_bIsFirstCommand /\ at' = "ask")
  PROVE  RateInv'
<1>1. Second' = Second /\ Since' = Since /\ CaughtUp' = CaughtUp
  BY DEF Second, Since, CaughtUp, Left
<1>2. Settled => Settled'
  BY <1>1 DEF Settled
<1>3. RateAt(requests, Second, Since, InStretch')
  <2>1. InStretch \in {0, 1} /\ InStretch' \in {0, 1} /\ InStretch <= InStretch'
    BY <1>2 DEF InStretch
  <2>2. requests \in Ages /\ Sorted(requests) /\ Second \in Nat /\ Since \in Nat
    BY ClockRanges, Lengths DEF RateInv, ClockTyped
  <2>3. QED
    BY <2>1, <2>2, RateSettled DEF RateInv
<1>4. QED
  BY <1>1, <1>3 DEF RateInv, ClockTyped

LEMMA RateNext ==
  ASSUME RateInv, SyncInterval >= SECS_PER_MIN, [Next]_vars PROVE RateInv'
<1>1. CASE Populate
  BY <1>1, CompareKeepsRate, ResetKeepsRate, CheckKeepsRate, AskKeepsRate, OthersKeepRate
  DEF Populate, CheckFirst, timeVars, history
<1>2. CASE HandleResult \/ Update \/ Lose \/ Surroundings \/ UNCHANGED vars
  BY <1>2, OthersKeepRate
  DEF HandleResult, Update, Lose, Surroundings, vars, timeVars, service, history
<1>3. QED
  BY <1>1, <1>2, PassingKeepsRate DEF Next

\* In no stretch of a minute does the service ask six times, however the hour and the
\* minutes are divided and however late a provider's answers are, provided a sync is a
\* minute or more after the one before, as it is in the library (300 seconds,
\* Time.cpp:30).
THEOREM Rate == ASSUME SyncInterval >= SECS_PER_MIN PROVE Spec => []RateKept
<1>1. Init => RateInv
  BY RateStarts
<1>2. RateInv /\ [Next]_vars => RateInv'
  BY RateNext
<1>3. RateInv => RateKept
  <2>1. SUFFICES ASSUME RateInv PROVE RateKept
    OBVIOUS
  <2>2. /\ requests[1] \in 0 .. SECS_PER_MIN /\ requests[2] \in 0 .. SECS_PER_MIN
        /\ requests[3] \in 0 .. SECS_PER_MIN /\ requests[4] \in 0 .. SECS_PER_MIN
        /\ requests[5] \in 0 .. SECS_PER_MIN /\ requests[6] \in 0 .. SECS_PER_MIN
        /\ requests[1] <= requests[2] /\ requests[2] <= requests[3]
        /\ requests[3] <= requests[4] /\ requests[4] <= requests[5]
        /\ requests[5] <= requests[6] /\ SECS_PER_MIN \in Nat
    <3>1. requests \in Ages /\ Sorted(requests)
      BY <2>1 DEF RateInv, ClockTyped
    <3>2. QED
      BY <3>1, SixAges
  <2>3. requests[6] = SECS_PER_MIN
    <3>1. RateAt(requests, Second, Since, InStretch)
      BY <2>1 DEF RateInv
    <3>2. CASE InStretch = 0
      <4>1. RateAt(requests, Second, Since, 0)
        BY <3>1, <3>2
      <4>2. requests[2] = SECS_PER_MIN \/ requests[3] = SECS_PER_MIN \/ requests[4] = SECS_PER_MIN
        BY <4>1 DEF RateAt
      <4>3. QED
        BY <2>2, <4>2
    <3>3. CASE InStretch = 1
      <4>1. RateAt(requests, Second, Since, 1)
        BY <3>1, <3>3
      <4>2. requests[3] = SECS_PER_MIN \/ requests[4] = SECS_PER_MIN \/ requests[5] = SECS_PER_MIN
        BY <4>1 DEF RateAt
      <4>3. QED
        BY <2>2, <4>2
    <3>4. QED
      BY <3>2, <3>3 DEF InStretch
  <2>4. QED
    BY <2>3 DEF RateKept, Limit
<1>4. QED
  BY <1>1, <1>2, <1>3, PTL DEF Spec
-----------------------------------------------------------------------------
(* The silence between two requests.  A request stamps the minute, and     *)
(* the next one is due as soon as the minute that Populate reads is        *)
(* another.  The readings come from a window: a provider answers up to     *)
(* MaxLate ticks late, so that the slowest reading tells when all of them  *)
(* have left a minute.  The invariant says how long it is at most until    *)
(* the next request, wherever that reading stands.                         *)

\* Two passes of the host and the lateness of an answer are over within a minute,
\* and an hour has three minutes or more.
Brisk == SECS_PER_HOUR >= 3 * SECS_PER_MIN /\ MaxLate + 2 * MaxBusy <= SECS_PER_MIN

Hour == SECS_PER_HOUR \div SECS_PER_MIN
Follow(m) == IF m = Hour - 1 THEN 0 ELSE m + 1

\* The ticks until Populate has compared the minute, of the call that goes on or is next,
\* and how many they are at most when a minute begins.
Delay == IF at = "host" THEN 2 * MaxBusy - busy ELSE MaxBusy - busy
Notice == 2 * MaxBusy - 1

\* The minute of the last request over, as a clock sees it that is s ticks into minute m.
Expires(m, s) ==
  IF last_connect = m THEN SECS_PER_MIN - s + Notice
  ELSE IF last_connect = Follow(m) THEN 2 * SECS_PER_MIN - s + Notice
  ELSE Notice - s

\* The clock is in the minute of the last request, just before it or just behind.
\* A minute that is over is noticed before its successor is, and Populate is in the
\* reset only at the wrap of the hour, or when the clock was set back.
Near(m, s) ==
  /\ last_connect = m \/ last_connect = Follow(m) \/ m = Follow(last_connect)
  /\ m = Follow(last_connect) => s + Delay <= Notice /\ (at = "reset" => last_connect = Hour - 1)
  /\ at = "reset" /\ last_connect = m /\ m # Hour - 1 => s + Delay <= Notice

AMinute(b) == IF b THEN SECS_PER_MIN ELSE 0

\* The longest silence from a reset, and from a request.
Round == 2 * SECS_PER_MIN + Notice + MaxLate
Longest == IF getTimePtr THEN SECS_PER_MIN + Notice + Round ELSE 2 * SECS_PER_MIN + Notice

\* No clock is set any more, or only by as much as the answers are late.
Calm(m, s) ==
  /\ at # "ask" /\ Near(m, s)
  /\ quiet + Expires(m, s) + AMinute(last_connect = Hour - 1) <= Longest

\* The provider may still set the clock to any time.
Unset(m, s) ==
  /\ at # "ask" /\ Near(m, s)
  /\ last_connect = m \/ m = Follow(last_connect)
  /\ at = "reset" => m = Follow(last_connect)
  /\ quiet + Expires(m, s) + Round - AMinute(last_connect = 0) <= Longest

\* It has just done so.
Jumped ==
  /\ at \in {"reset", "check"}
  /\ quiet + Delay + Round - AMinute(at = "check" /\ last_connect # Hour - 1) <= Longest

Asking == (at = "ask" \/ m_bIsFirstCommand) /\ quiet + Delay <= Longest

\* What the clock may be set to: the slowest reading, and up to Spread ticks more.
Slowest == IF getTimePtr THEN (time + SECS_PER_HOUR - MaxLate) % SECS_PER_HOUR ELSE CaughtUp
Spread == IF getTimePtr THEN MaxLate ELSE 0
Window == {(Slowest + j) % SECS_PER_HOUR : j \in 0 .. Spread}

Watch ==
  /\ at \in {"host", "reset", "check", "ask"} /\ m_bIsFirstCommand \in BOOLEAN
  /\ busy \in 0 .. MaxBusy /\ quiet \in Nat /\ last_connect \in 0 .. Hour - 1
  /\ sysTime \in Times /\ ahead \in Nat /\ time \in Times /\ getTimePtr \in BOOLEAN

Mood ==
  \/ Asking
  \/ CaughtUp \in Window /\ Calm(Minute(Slowest), Slowest % SECS_PER_MIN)
  \/ getTimePtr /\ Unset(Minute(CaughtUp), CaughtUp % SECS_PER_MIN)
  \/ getTimePtr /\ CaughtUp \in Window /\ Jumped

AskInv == Watch /\ Mood

LEMMA Sizes ==
  ASSUME Brisk
  PROVE  /\ SECS_PER_MIN \in Nat /\ SECS_PER_MIN > 1 /\ SECS_PER_HOUR \in Nat
         /\ Hour \in Nat /\ Hour >= 3 /\ SECS_PER_HOUR = SECS_PER_MIN * Hour
         /\ MaxBusy \in Nat /\ MaxBusy > 0 /\ MaxLate \in Nat
         /\ MaxLate + 2 * MaxBusy <= SECS_PER_MIN
<1> DEFINE d == SECS_PER_MIN
           h == SECS_PER_HOUR
           q == h \div d
<1>1. /\ d \in Nat /\ d > 0 /\ h \in Nat /\ h > 0 /\ h % d = 0 /\ h >= 3 * d
      /\ MaxBusy \in Nat /\ MaxBusy > 0 /\ MaxLate \in Nat /\ MaxLate + 2 * MaxBusy <= d
  BY Lengths, ClockAssumption, StationAssumption DEF Brisk
<1> HIDE DEF d, h
<1>2. q \in Nat /\ h = d * q
  <2>1. q \in Nat /\ h = d * q + (h % d)
    BY <1>1
  <2>2. QED
    BY <1>1, <2>1
<1> HIDE DEF q
<1>3. q >= 3
  <2>1. SUFFICES ASSUME q <= 2 PROVE FALSE
    BY <1>2
  <2>2. q = 0 \/ q = 1 \/ q = 2
    BY <1>2, <2>1
  <2>3. QED
    BY <1>1, <1>2, <2>2
<1>4. QED
  BY <1>1, <1>2, <1>3 DEF d, h, q, Hour

\* An hour that is added, or more, is not seen.
LEMMA HourShift ==
  ASSUME NEW n \in Nat, NEW j \in Nat
  PROVE  ((n % SECS_PER_HOUR) + j) % SECS_PER_HOUR = (n + j) % SECS_PER_HOUR
<1> DEFINE d == SECS_PER_HOUR
           q == n \div d
           r == n % d
           p == (r + j) \div d
           s == (r + j) % d
<1>1. d \in Nat \ {0}
  BY Lengths
<1> HIDE DEF d
<1>2. q \in Nat /\ r \in 0 .. d - 1 /\ n = d * q + r
  BY <1>1
<1> HIDE DEF q, r
<1>3. p \in Nat /\ s \in 0 .. d - 1 /\ r + j = d * p + s
  BY <1>1, <1>2
<1> HIDE DEF p, s
<1>4. PICK k \in Nat : k = q + p
  BY <1>2, <1>3
<1>5. n + j = d * k + s
  BY <1>1, <1>2, <1>3, <1>4
<1>6. (d * k + s) % d = s
  BY <1>1, <1>3, <1>4, DivUnique
<1>7. QED
  BY <1>5, <1>6 DEF s, r, d

\* Less than a minute later it is the same minute or the one that follows.
LEMMA Later ==
  ASSUME Brisk, NEW z \in Times, NEW j \in 0 .. SECS_PER_MIN - 1
  PROVE  /\ Minute(z) \in 0 .. Hour - 1 /\ z % SECS_PER_MIN \in 0 .. SECS_PER_MIN - 1
         /\ (z + j) % SECS_PER_HOUR \in Times
         /\ (z % SECS_PER_MIN) + j < SECS_PER_MIN =>
              /\ Minute((z + j) % SECS_PER_HOUR) = Minute(z)
              /\ ((z + j) % SECS_PER_HOUR) % SECS_PER_MIN = (z % SECS_PER_MIN) + j
         /\ (z % SECS_PER_MIN) + j >= SECS_PER_MIN =>
              /\ Minute((z + j) % SECS_PER_HOUR) = Follow(Minute(z))
              /\ ((z + j) % SECS_PER_HOUR) % SECS_PER_MIN = (z % SECS_PER_MIN) + j - SECS_PER_MIN
<1> DEFINE d == SECS_PER_MIN
           h == SECS_PER_HOUR
           q == z \div d
           r == z % d
           t == (z + j) % h
<1>1. /\ d \in Nat \ {0} /\ h \in Nat \ {0} /\ Hour \in Nat /\ Hour >= 3 /\ h = d * Hour
      /\ z \in Nat /\ z < h /\ j \in Nat /\ j < d
  BY Sizes, Lengths DEF Times
<1> HIDE DEF d, h
<1>2. q \in Nat /\ r \in 0 .. d - 1 /\ z = d * q + r
  BY <1>1
<1> HIDE DEF q, r
<1>3. q <= Hour - 1
  <2>1. SUFFICES ASSUME q >= Hour PROVE FALSE
    BY <1>1, <1>2
  <2>2. PICK k \in Nat : q = Hour + k
    <3>1. q - Hour \in Nat /\ q = Hour + (q - Hour)
      BY <1>1, <1>2, <2>1
    <3>2. QED
      BY <3>1
  <2>3. d * k \in Nat /\ d * q = d * Hour + d * k
    BY <1>1, <2>2
  <2>4. QED
    BY <1>1, <1>2, <2>3
<1>4. t \in 0 .. h - 1
  BY <1>1
\* The quotient and the remainder of t say what they are of.
<1>5. ASSUME NEW e \in 0 .. Hour - 1, NEW u \in 0 .. d - 1, NEW k \in {0, 1}, z + j = h * k + (d * e + u)
      PROVE  t \div d = e /\ t % d = u
  <2> DEFINE v == d * e + u
  <2>1. v \in 0 .. h - 1
    <3>1. PICK f \in Nat : Hour = e + 1 + f
      <4>1. Hour - 1 - e \in Nat /\ Hour = e + 1 + (Hour - 1 - e)
        BY <1>1
      <4>2. QED
        BY <4>1
    <3>2. d * f \in Nat /\ d * e \in Nat /\ d * Hour = d * e + d + d * f
      BY <1>1, <3>1
    <3>3. QED
      BY <1>1, <3>2
  <2>2. v % d = u /\ v \div d = e
    BY <1>1, DivUnique
  <2> HIDE DEF v
  <2>3. z + j = h * k + v /\ k \in Nat
    BY <1>5 DEF v
  <2>4. (h * k + v) % h = v
    BY <1>1, <2>1, <2>3, DivUnique
  <2>5. t = v
    BY <2>3, <2>4
  <2>6. QED
    BY <2>2, <2>5
<1>6. ASSUME r + j < d PROVE t \div d = q /\ t % d = r + j
  <2>1. z + j = h * 0 + (d * q + (r + j)) /\ r + j \in 0 .. d - 1 /\ q \in 0 .. Hour - 1
    BY <1>1, <1>2, <1>3, <1>6
  <2>2. QED
    BY <1>5, <2>1
<1>7. ASSUME r + j >= d PROVE t \div d = Follow(q) /\ t % d = r + j - d
  <2>1. r + j - d \in 0 .. d - 1
    BY <1>1, <1>2, <1>7
  <2>2. CASE q = Hour - 1
    <3>1. d * Hour = d * q + d
      BY <1>1, <1>2, <2>2
    <3>2. z + j = h * 1 + (d * 0 + (r + j - d))
      BY <1>1, <1>2, <3>1
    <3>3. QED
      BY <1>1, <1>5, <2>1, <2>2, <3>2 DEF Follow
  <2>3. CASE q # Hour - 1
    <3>1. q + 1 \in 0 .. Hour - 1
      BY <1>1, <1>2, <1>3, <2>3
    <3>2. z + j = h * 0 + (d * (q + 1) + (r + j - d))
      BY <1>1, <1>2
    <3>3. QED
      BY <1>5, <2>1, <2>3, <3>1, <3>2 DEF Follow
  <2>4. QED
    BY <2>2, <2>3
<1>8. Minute(z) = q /\ Minute(t) = t \div d /\ z % d = r
  BY DEF Minute, q, r, d
<1>9. QED
  BY <1>1, <1>2, <1>3, <1>4, <1>6, <1>7, <1>8 DEF d, h, t, Times

\* What Mood speaks of, when the clock is read.
LEMMA Reading ==
  ASSUME Brisk, Watch, NEW t \in Times, Now(t)
  PROVE  /\ sysTime' \in Times /\ ahead' \in Nat /\ time' = time /\ getTimePtr' = getTimePtr
         /\ CaughtUp' = t /\ Slowest' = Slowest /\ Window' = Window
         /\ t = CaughtUp \/ (getTimePtr /\ t \in Window)
<1> USE Sizes
<1>1. sysTime' = t /\ ahead' = 0 /\ time' = time /\ getTimePtr' = getTimePtr
  BY DEF Now
<1>2. CaughtUp' = t
  <2>1. t + 0 = t /\ t % SECS_PER_HOUR = t
    BY DEF Times
  <2>2. QED
    BY <1>1, <2>1 DEF CaughtUp
<1>3. ASSUME Synced(t) PROVE getTimePtr /\ t \in Window
  <2>1. PICK late \in 0 .. MaxLate : t = (time + SECS_PER_HOUR - late) % SECS_PER_HOUR
    BY <1>3 DEF Synced
  <2>2. getTimePtr
    BY <1>3 DEF Synced
  <2>3. PICK n \in Nat : n = time + SECS_PER_HOUR - MaxLate
    BY ClockAssumption DEF Watch, Times
  <2>4. PICK j \in 0 .. MaxLate : j = MaxLate - late
    OBVIOUS
  <2>5. n + j = time + SECS_PER_HOUR - late
    BY <2>3, <2>4 DEF Watch, Times
  <2>6. ((n % SECS_PER_HOUR) + j) % SECS_PER_HOUR = t
    BY <2>1, <2>4, <2>5, HourShift
  <2>7. Slowest = n % SECS_PER_HOUR /\ Spread = MaxLate
    BY <2>2, <2>3 DEF Slowest, Spread
  <2>8. QED
    BY <2>2, <2>4, <2>6, <2>7 DEF Window
<1>4. t = CaughtUp \/ (getTimePtr /\ t \in Window)
  BY <1>3 DEF Now, Unsynced
<1>5. Slowest' = Slowest
  <2>1. CASE getTimePtr
    BY <1>1, <2>1 DEF Slowest
  <2>2. CASE ~getTimePtr
    BY <1>1, <1>2, <1>4, <2>2 DEF Slowest
  <2>3. QED
    BY <2>1, <2>2
<1>6. Window' = Window
  BY <1>1, <1>5 DEF Window, Spread
<1>7. QED
  BY <1>1, <1>2, <1>4, <1>5, <1>6 DEF Watch

\* A reading of the window is of the minute of the slowest one, or of the next.
LEMMA WindowMinute ==
  ASSUME Brisk, Watch
  PROVE  /\ Slowest \in Times /\ Minute(Slowest) \in 0 .. Hour - 1
         /\ Slowest % SECS_PER_MIN \in 0 .. SECS_PER_MIN - 1
         /\ \A t \in Window :
              /\ t \in Times
              /\ \/ Minute(t) = Minute(Slowest)
                 \/ /\ Minute(t) = Follow(Minute(Slowest))
                    /\ (Slowest % SECS_PER_MIN) + Spread >= SECS_PER_MIN
<1> USE Sizes
<1>1. CaughtUp \in Times
  <2>1. sysTime + ahead \in Nat
    BY DEF Watch, Times
  <2>2. QED
    BY <2>1, NextTime DEF CaughtUp
<1>2. Slowest \in Times
  <2>1. CASE getTimePtr
    <3>1. time + SECS_PER_HOUR - MaxLate \in Nat
      BY ClockAssumption DEF Watch, Times
    <3>2. QED
      BY <2>1, <3>1, NextTime DEF Slowest
  <2>2. QED
    BY <1>1, <2>1 DEF Slowest
<1>3. Spread \in 0 .. SECS_PER_MIN - 1
  BY DEF Spread
<1>4. ASSUME NEW t \in Window
      PROVE  /\ t \in Times
             /\ \/ Minute(t) = Minute(Slowest)
                \/ /\ Minute(t) = Follow(Minute(Slowest))
                   /\ (Slowest % SECS_PER_MIN) + Spread >= SECS_PER_MIN
  <2>1. PICK j \in 0 .. Spread : t = (Slowest + j) % SECS_PER_HOUR
    BY DEF Window
  <2>2. j \in 0 .. SECS_PER_MIN - 1 /\ j <= Spread
    BY <1>3
  <2>3. PICK s \in 0 .. SECS_PER_MIN - 1 : s = Slowest % SECS_PER_MIN
    BY <1>2, <2>2, Later
  <2>4. /\ t \in Times
        /\ s + j < SECS_PER_MIN => Minute(t) = Minute(Slowest)
        /\ s + j >= SECS_PER_MIN => Minute(t) = Follow(Minute(Slowest))
    BY <1>2, <2>1, <2>2, <2>3, Later
  <2>5. s + j < SECS_PER_MIN \/ s + j >= SECS_PER_MIN
    BY <2>2, <2>3
  <2>6. s + j >= SECS_PER_MIN => s + Spread >= SECS_PER_MIN
    BY <1>3, <2>2, <2>3
  <2>7. QED
    BY <2>3, <2>4, <2>5, <2>6
<1>5. 0 \in 0 .. SECS_PER_MIN - 1
  OBVIOUS
<1>6. Minute(Slowest) \in 0 .. Hour - 1 /\ Slowest % SECS_PER_MIN \in 0 .. SECS_PER_MIN - 1
  BY <1>2, <1>5, Later
<1>7. QED
  BY <1>2, <1>4, <1>6

\* The clock itself, with nothing ahead of it.
LEMMA ClockMinute ==
  ASSUME Brisk, Watch
  PROVE  /\ CaughtUp \in Times /\ Minute(CaughtUp) \in 0 .. Hour - 1
         /\ CaughtUp % SECS_PER_MIN \in 0 .. SECS_PER_MIN - 1
         /\ ~getTimePtr => CaughtUp \in Window /\ Window = {CaughtUp} /\ Slowest = CaughtUp
<1> USE Sizes
<1>1. CaughtUp \in Times
  <2>1. sysTime + ahead \in Nat
    BY DEF Watch, Times
  <2>2. QED
    BY <2>1, NextTime DEF CaughtUp
<1>2. 0 \in 0 .. SECS_PER_MIN - 1
  OBVIOUS
<1>3. Minute(CaughtUp) \in 0 .. Hour - 1 /\ CaughtUp % SECS_PER_MIN \in 0 .. SECS_PER_MIN - 1
  BY <1>1, <1>2, Later
<1>4. ASSUME ~getTimePtr PROVE Window = {CaughtUp} /\ Slowest = CaughtUp
  <2>1. Slowest = CaughtUp /\ Spread = 0
    BY <1>4 DEF Slowest, Spread
  <2>2. (CaughtUp + 0) % SECS_PER_HOUR = CaughtUp
    BY <1>1 DEF Times
  <2>3. 0 .. 0 = {0}
    OBVIOUS
  <2>4. QED
    BY <2>1, <2>2, <2>3 DEF Window
<1>5. QED
  BY <1>1, <1>3, <1>4

-----------------------------------------------------------------------------
(* One step, seen from a minute m and its second s.                        *)

LEMMA Limits ==
  ASSUME Brisk, Watch
  PROVE  /\ Longest \in Nat /\ Round \in Nat /\ Round = 2 * SECS_PER_MIN + Notice + MaxLate
         /\ Notice \in Nat /\ Notice = 2 * MaxBusy - 1
         /\ Notice + MaxLate < SECS_PER_MIN /\ Spread \in 0 .. MaxLate
         /\ getTimePtr => Longest = SECS_PER_MIN + Notice + Round /\ Spread = MaxLate
         /\ ~getTimePtr => Longest = 2 * SECS_PER_MIN + Notice /\ Spread = 0
         /\ getTimePtr' = getTimePtr => Longest' = Longest
         /\ Delay \in Nat /\ Delay <= 2 * MaxBusy
BY Sizes DEF Longest, Round, Notice, Spread, Delay, Watch

LEMMA Follows ==
  ASSUME Brisk, NEW m \in 0 .. Hour - 1
  PROVE  Follow(m) \in 0 .. Hour - 1 /\ Follow(m) # m /\ m # Follow(Follow(m))
<1> USE Sizes
<1>1. CASE m = Hour - 1
  BY <1>1 DEF Follow
<1>2. CASE m # Hour - 1
  BY <1>2 DEF Follow
<1>3. QED
  BY <1>1, <1>2

\* The request comes in time when the call asks now.
LEMMA AsksInTime ==
  ASSUME Brisk, Watch, NEW m \in 0 .. Hour - 1, NEW s \in 0 .. SECS_PER_MIN - 1,
         Calm(m, s) \/ Unset(m, s) \/ Jumped, at = "check"
  PROVE  quiet + Delay <= Longest
<1> USE Sizes, Limits
<1>1. quiet \in Nat /\ busy \in 0 .. MaxBusy /\ last_connect \in 0 .. Hour - 1 /\ Delay = MaxBusy - busy
  BY DEF Watch, Delay
<1>2. ASSUME Near(m, s) PROVE Expires(m, s) \in Int /\ Expires(m, s) >= Delay
  BY <1>1, <1>2 DEF Near, Expires
<1>3. CASE Calm(m, s)
  BY <1>1, <1>2, <1>3 DEF Calm, AMinute
<1>4. CASE Unset(m, s)
  BY <1>1, <1>2, <1>4 DEF Unset, AMinute
<1>5. CASE Jumped
  BY <1>1, <1>5 DEF Jumped, AMinute
<1>6. QED
  BY <1>3, <1>4, <1>5

LEMMA CalmCompares ==
  ASSUME Brisk, Watch, NEW m \in 0 .. Hour - 1, NEW s \in 0 .. SECS_PER_MIN - 1, Calm(m, s),
         NEW x, x = m \/ (x = Follow(m) /\ s + Spread >= SECS_PER_MIN),
         at = "host", at' = IF x < last_connect THEN "reset" ELSE "check", busy' = 0,
         UNCHANGED <<last_connect, quiet, getTimePtr>>
  PROVE  Calm(m, s)'
<1> USE Sizes, Limits
<1>1. /\ quiet \in Nat /\ busy \in 0 .. MaxBusy /\ last_connect \in 0 .. Hour - 1
      /\ Delay = 2 * MaxBusy - busy /\ Delay' = MaxBusy
  BY DEF Watch, Delay
<1>2. Expires(m, s)' = Expires(m, s) /\ AMinute(last_connect = Hour - 1)' = AMinute(last_connect = Hour - 1)
  BY DEF Expires, AMinute
<1>3. Near(m, s)
  BY DEF Calm
<1>4. Near(m, s)'
  <2>1. m = Follow(last_connect) => x = m /\ s + Delay' <= Notice
                                    /\ (at' = "reset" => last_connect = Hour - 1)
    BY <1>1, <1>3 DEF Near, Follow
  <2>2. at' = "reset" /\ last_connect = m => m = Hour - 1
    BY <1>1 DEF Follow
  <2>3. QED
    BY <1>3, <2>1, <2>2 DEF Near
<1>5. QED
  BY <1>2, <1>4 DEF Calm

LEMMA UnsetCompares ==
  ASSUME Brisk, Watch, NEW m \in 0 .. Hour - 1, NEW s \in 0 .. SECS_PER_MIN - 1, Unset(m, s),
         at = "host", at' = IF m < last_connect THEN "reset" ELSE "check", busy' = 0,
         UNCHANGED <<last_connect, quiet, getTimePtr>>
  PROVE  Unset(m, s)'
<1> USE Sizes, Limits
<1>1. /\ quiet \in Nat /\ busy \in 0 .. MaxBusy /\ last_connect \in 0 .. Hour - 1
      /\ Delay = 2 * MaxBusy - busy /\ Delay' = MaxBusy
  BY DEF Watch, Delay
<1>2. Expires(m, s)' = Expires(m, s) /\ AMinute(last_connect = 0)' = AMinute(last_connect = 0)
  BY DEF Expires, AMinute
<1>3. Near(m, s) /\ (last_connect = m \/ m = Follow(last_connect))
  BY DEF Unset
<1>4. Near(m, s)' /\ (at' = "reset" => m = Follow(last_connect))
  <2>1. m = Follow(last_connect) => s + Delay' <= Notice /\ (at' = "reset" => last_connect = Hour - 1)
    BY <1>1, <1>3 DEF Near, Follow
  <2>2. at' = "reset" => last_connect # m
    BY <1>1
  <2>3. QED
    BY <1>3, <2>1, <2>2 DEF Near
<1>5. QED
  BY <1>2, <1>3, <1>4 DEF Unset

\* The provider sets the clock when Populate compares.
LEMMA UnsetLeaps ==
  ASSUME Brisk, Watch, NEW m \in 0 .. Hour - 1, NEW s \in 0 .. SECS_PER_MIN - 1, Unset(m, s),
         NEW x \in Nat, getTimePtr,
         at = "host", at' = IF x < last_connect THEN "reset" ELSE "check", busy' = 0,
         UNCHANGED <<last_connect, quiet, getTimePtr>>
  PROVE  Jumped'
<1> USE Sizes, Limits
<1>1. /\ quiet \in Nat /\ busy \in 0 .. MaxBusy /\ last_connect \in 0 .. Hour - 1
      /\ Delay = 2 * MaxBusy - busy /\ Delay' = MaxBusy
  BY DEF Watch, Delay
<1>2. Near(m, s) /\ quiet + Expires(m, s) + Round - AMinute(last_connect = 0) <= Longest
  BY DEF Unset
<1>3. Expires(m, s) \in Int /\ Expires(m, s) >= MaxBusy
  BY <1>1, <1>2 DEF Near, Expires
<1>4. at' = "reset" => last_connect # 0
  BY <1>1
<1>5. quiet + MaxBusy + Round - AMinute(at' = "check" /\ last_connect # Hour - 1) <= Longest
  BY <1>1, <1>2, <1>3, <1>4 DEF AMinute
<1>6. QED
  BY <1>1, <1>5 DEF Jumped, AMinute

\* The minute is stamped, or compared and found the same, when the clock is at the
\* latest what the provider says it is.
LEMMA Fresh ==
  ASSUME Brisk, Watch, Watch', NEW m \in 0 .. Hour - 1, NEW s \in 0 .. SECS_PER_MIN - 1,
         last_connect' = m \/ (last_connect' = Follow(m) /\ s + Spread >= SECS_PER_MIN),
         at' \in {"host", "check"}, UNCHANGED getTimePtr,
         quiet' + 2 * SECS_PER_MIN + Notice + Spread - AMinute(last_connect' # Hour - 1) <= Longest
  PROVE  Calm(m, s)'
<1> USE Sizes, Limits
<1>1. quiet' \in Nat /\ last_connect' \in 0 .. Hour - 1
  BY DEF Watch
<1>2. Near(m, s)'
  <2>1. m # Follow(last_connect')
    BY Follows
  <2>2. QED
    BY <2>1 DEF Near
<1>3. /\ Expires(m, s)' \in Int
      /\ Expires(m, s)' <= SECS_PER_MIN + Notice + Spread
  BY <1>1 DEF Expires
<1>4. quiet' + Expires(m, s)' + AMinute(last_connect' = Hour - 1) <= Longest
  BY <1>1, <1>3 DEF AMinute
<1>5. QED
  BY <1>2, <1>4 DEF Calm, AMinute

\* At the reset, and at a check that finds the minute the same, a stamp leaves the
\* silence that there may be as long.
LEMMA CalmStamps ==
  ASSUME Brisk, Watch, NEW m \in 0 .. Hour - 1, NEW s \in 0 .. SECS_PER_MIN - 1, Calm(m, s),
         last_connect' = m \/ (last_connect' = Follow(m) /\ s + Spread >= SECS_PER_MIN),
         \/ at = "reset" /\ at' = "check"
         \/ at = "check" /\ at' = "host" /\ last_connect' = last_connect,
         UNCHANGED <<quiet, busy, getTimePtr>>
  PROVE  Calm(m, s)'
<1> USE Sizes, Limits
<1>1. quiet \in Nat /\ busy \in 0 .. MaxBusy /\ last_connect \in 0 .. Hour - 1
  BY DEF Watch
<1>2. Near(m, s) /\ quiet + Expires(m, s) + AMinute(last_connect = Hour - 1) <= Longest
  BY DEF Calm
<1>3. last_connect' \in 0 .. Hour - 1
  BY Follows
<1>4. Near(m, s)'
  <2>1. m # Follow(last_connect')
    BY Follows
  <2>2. at' # "reset"
    OBVIOUS
  <2>3. QED
    BY <2>1, <2>2 DEF Near
<1>5. /\ Expires(m, s) \in Int /\ Expires(m, s)' \in Int
      /\ Expires(m, s)' + AMinute(last_connect' = Hour - 1) <= Expires(m, s) + AMinute(last_connect = Hour - 1)
  BY <1>1, <1>2, <1>3 DEF Near, Follow, Expires, AMinute
<1>6. AMinute(last_connect = Hour - 1) \in Nat /\ AMinute(last_connect' = Hour - 1) \in Nat
  BY DEF AMinute
<1>7. quiet + Expires(m, s)' + AMinute(last_connect' = Hour - 1) <= Longest
  BY <1>1, <1>2, <1>5, <1>6
<1>8. QED
  BY <1>4, <1>7 DEF Calm, AMinute

LEMMA UnsetStamps ==
  ASSUME Brisk, Watch, NEW m \in 0 .. Hour - 1, NEW s \in 0 .. SECS_PER_MIN - 1, Unset(m, s),
         last_connect' = m,
         \/ at = "reset" /\ at' = "check"
         \/ at = "check" /\ at' = "host" /\ last_connect' = last_connect,
         UNCHANGED <<quiet, busy, getTimePtr>>
  PROVE  Unset(m, s)'
<1> USE Sizes, Limits
<1>1. quiet \in Nat /\ busy \in 0 .. MaxBusy /\ last_connect \in 0 .. Hour - 1
  BY DEF Watch
<1>2. /\ Near(m, s) /\ quiet + Expires(m, s) + Round - AMinute(last_connect = 0) <= Longest
      /\ at = "reset" => m = Follow(last_connect)
  BY DEF Unset
<1>3. Near(m, s)'
  BY <1>1 DEF Near, Follow
<1>4. /\ Expires(m, s) \in Int /\ Expires(m, s)' \in Int
      /\ Expires(m, s)' - AMinute(last_connect' = 0) <= Expires(m, s) - AMinute(last_connect = 0)
  BY <1>1, <1>2 DEF Near, Follow, Expires, AMinute
<1>5. AMinute(last_connect = 0) \in Nat /\ AMinute(last_connect' = 0) \in Nat
  BY DEF AMinute
<1>6. quiet + Expires(m, s)' + Round - AMinute(last_connect' = 0) <= Longest
  BY <1>1, <1>2, <1>4, <1>5
<1>7. QED
  BY <1>3, <1>6 DEF Unset, AMinute

\* What Fresh asks for, where the provider sets the clock.
LEMMA LeapInTime ==
  ASSUME Brisk, Watch, NEW m \in 0 .. Hour - 1, NEW s \in 0 .. SECS_PER_MIN - 1, getTimePtr,
         Unset(m, s) \/ Jumped, at \in {"reset", "check"},
         NEW l \in 0 .. Hour - 1, at = "check" => l = last_connect
  PROVE  quiet + 2 * SECS_PER_MIN + Notice + Spread - AMinute(l # Hour - 1) <= Longest
<1> USE Sizes, Limits
<1>1. quiet \in Nat /\ busy \in 0 .. MaxBusy /\ last_connect \in 0 .. Hour - 1 /\ Delay = MaxBusy - busy
  BY DEF Watch, Delay
<1>2. CASE Unset(m, s)
  <2>1. /\ Near(m, s) /\ quiet + Expires(m, s) + Round - AMinute(last_connect = 0) <= Longest
        /\ at = "reset" => m = Follow(last_connect)
    BY <1>2 DEF Unset
  <2>2. Expires(m, s) \in Nat
    BY <1>1, <2>1 DEF Near, Expires
  <2>3. at = "reset" => last_connect # 0
    BY <1>1, <2>1 DEF Near
  <2>4. QED
    BY <1>1, <2>1, <2>2, <2>3 DEF AMinute
<1>3. CASE Jumped
  BY <1>1, <1>3 DEF Jumped, AMinute
<1>4. QED
  BY <1>2, <1>3

-----------------------------------------------------------------------------

LEMMA WatchNext == ASSUME Brisk, Watch, [Next]_vars PROVE Watch'
<1> USE Sizes
<1>1. ASSUME NEW t \in Times, Now(t)
      PROVE  /\ sysTime' \in Times /\ ahead' \in Nat /\ time' \in Times /\ getTimePtr' \in BOOLEAN
             /\ Minute(t) \in 0 .. Hour - 1
  <2>1. 0 \in 0 .. SECS_PER_MIN - 1
    OBVIOUS
  <2>2. QED
    BY <1>1, <2>1, Reading, Later DEF Watch
<1>2. CASE Compare
  BY <1>1, <1>2 DEF Compare, Watch
<1>3. CASE Reset
  BY <1>1, <1>3 DEF Reset, Watch, history
<1>4. CASE CheckFirst
  BY <1>4 DEF CheckFirst, Watch, timeVars, history
<1>5. CASE Check
  BY <1>1, <1>5 DEF Check, Watch, history
<1>6. CASE Ask
  BY <1>1, <1>6 DEF Ask, Stamp, Watch
<1>7. CASE Passing
  <2>1. /\ busy < MaxBusy /\ busy' = busy + 1 /\ quiet' = quiet + 1 /\ ahead' = ahead + 1
        /\ time' = (time + 1) % SECS_PER_HOUR
        /\ UNCHANGED <<sysTime, getTimePtr, at, last_connect, m_bIsFirstCommand>>
    BY <1>7 DEF Passing, Tick, service
  <2>2. time + 1 \in Nat
    BY DEF Watch, Times
  <2>3. time' \in Times
    BY <2>1, <2>2, NextTime
  <2>4. QED
    BY <2>1, <2>3 DEF Watch
<1>8. CASE HandleResult \/ Update \/ Lose \/ Surroundings \/ UNCHANGED vars
  BY <1>8
  DEF Watch, HandleResult, Update, Lose, Surroundings, vars, timeVars, service, history
<1>9. QED
  BY <1>2, <1>3, <1>4, <1>5, <1>6, <1>7, <1>8 DEF Next, Populate

LEMMA CompareKeepsMood == ASSUME Brisk, Watch, Mood, Compare PROVE Mood'
<1>1. PICK t \in Times : Now(t) /\ at' = IF Minute(t) < last_connect THEN "reset" ELSE "check"
  BY DEF Compare
<1>2. at = "host" /\ busy' = 0 /\ UNCHANGED <<last_connect, m_bIsFirstCommand, quiet>>
  BY DEF Compare
<1>3. /\ getTimePtr' = getTimePtr /\ CaughtUp' = t /\ Slowest' = Slowest /\ Window' = Window
      /\ t = CaughtUp \/ (getTimePtr /\ t \in Window)
  BY <1>1, Reading
<1>4. CASE Asking
  <2>1. m_bIsFirstCommand /\ quiet + Delay <= Longest
    BY <1>2, <1>4 DEF Asking
  <2>2. Delay' <= Delay /\ Delay' \in Int /\ Delay \in Int /\ quiet \in Int
    BY <1>1, <1>2, Sizes DEF Delay, Watch
  <2>3. quiet + Delay' <= Longest' /\ Longest \in Int /\ Longest' = Longest
    BY <1>3, <2>1, <2>2, Limits
  <2>4. QED
    BY <1>2, <2>1, <2>3 DEF Asking, Mood
<1>5. CASE CaughtUp \in Window /\ Calm(Minute(Slowest), Slowest % SECS_PER_MIN)
  <2>1. t \in Window
    BY <1>3, <1>5
  <2>2. PICK m \in 0 .. Hour - 1, s \in 0 .. SECS_PER_MIN - 1 :
          m = Minute(Slowest) /\ s = Slowest % SECS_PER_MIN
    BY WindowMinute
  <2>3. Minute(t) = m \/ (Minute(t) = Follow(m) /\ s + Spread >= SECS_PER_MIN)
    BY <2>1, <2>2, WindowMinute
  <2>4. Calm(m, s)'
    BY <1>1, <1>2, <1>3, <1>5, <2>2, <2>3, CalmCompares
  <2>5. Minute(Slowest)' = m /\ (Slowest % SECS_PER_MIN)' = s
    BY <1>3, <2>2 DEF Minute
  <2>6. QED
    BY <1>3, <2>1, <2>4, <2>5 DEF Mood
<1>6. CASE getTimePtr /\ Unset(Minute(CaughtUp), CaughtUp % SECS_PER_MIN)
  <2>1. PICK m \in 0 .. Hour - 1, s \in 0 .. SECS_PER_MIN - 1 :
          m = Minute(CaughtUp) /\ s = CaughtUp % SECS_PER_MIN
    BY ClockMinute
  <2>2. CASE t = CaughtUp
    <3>1. Unset(m, s)'
      BY <1>1, <1>2, <1>3, <1>6, <2>1, <2>2, UnsetCompares
    <3>2. Minute(CaughtUp)' = m /\ (CaughtUp % SECS_PER_MIN)' = s
      BY <1>3, <2>1, <2>2 DEF Minute
    <3>3. QED
      BY <1>3, <1>6, <3>1, <3>2 DEF Mood
  <2>3. CASE t \in Window
    <3>1. Minute(t) \in Nat
      BY Lengths DEF Minute, Times
    <3>2. Jumped'
      BY <1>1, <1>2, <1>3, <1>6, <2>1, <3>1, UnsetLeaps
    <3>3. QED
      BY <1>3, <1>6, <2>3, <3>2 DEF Mood
  <2>4. QED
    BY <1>3, <2>2, <2>3
<1>7. CASE Jumped
  BY <1>2, <1>7 DEF Jumped
<1>8. QED
  BY <1>4, <1>5, <1>6, <1>7 DEF Mood

LEMMA ResetKeepsMood == ASSUME Brisk, Watch, Watch', Mood, Reset PROVE Mood'
<1>1. PICK t \in Times : Now(t) /\ last_connect' = Minute(t)
  BY DEF Reset
<1>2. at = "reset" /\ at' = "check" /\ UNCHANGED <<m_bIsFirstCommand, quiet, busy>>
  BY DEF Reset, history
<1>3. /\ getTimePtr' = getTimePtr /\ CaughtUp' = t /\ Slowest' = Slowest /\ Window' = Window
      /\ t = CaughtUp \/ (getTimePtr /\ t \in Window)
  BY <1>1, Reading
<1>4. CASE Asking
  <2>1. m_bIsFirstCommand /\ quiet + Delay <= Longest
    BY <1>2, <1>4 DEF Asking
  <2>2. Delay' = Delay /\ Longest' = Longest
    BY <1>2, <1>3, Limits DEF Delay
  <2>3. QED
    BY <1>2, <2>1, <2>2 DEF Asking, Mood
<1>5. PICK m \in 0 .. Hour - 1, s \in 0 .. SECS_PER_MIN - 1 :
        m = Minute(Slowest) /\ s = Slowest % SECS_PER_MIN
  BY WindowMinute
<1>6. ASSUME t \in Window
      PROVE  Minute(t) = m \/ (Minute(t) = Follow(m) /\ s + Spread >= SECS_PER_MIN)
  BY <1>5, <1>6, WindowMinute
<1>7. ASSUME t \in Window, Calm(m, s)' PROVE Mood'
  <2>1. Minute(Slowest)' = m /\ (Slowest % SECS_PER_MIN)' = s
    BY <1>3, <1>5 DEF Minute
  <2>2. QED
    BY <1>3, <1>7, <2>1 DEF Mood
<1>8. CASE CaughtUp \in Window /\ Calm(Minute(Slowest), Slowest % SECS_PER_MIN)
  <2>1. t \in Window
    BY <1>3, <1>8
  <2>2. Calm(m, s)'
    BY <1>1, <1>2, <1>3, <1>5, <1>6, <1>8, <2>1, CalmStamps
  <2>3. QED
    BY <1>7, <2>1, <2>2
\* The provider sets the clock that the minute is stamped from.
<1>9. ASSUME getTimePtr, t \in Window, NEW n \in 0 .. Hour - 1, NEW u \in 0 .. SECS_PER_MIN - 1,
             Unset(n, u) \/ Jumped
      PROVE  Mood'
  <2>1. Minute(t) \in 0 .. Hour - 1
    BY <1>1 DEF Watch
  <2>2. quiet + 2 * SECS_PER_MIN + Notice + Spread - AMinute(Minute(t) # Hour - 1) <= Longest
    BY <1>2, <1>9, <2>1, LeapInTime
  <2>3. Longest' = Longest
    BY <1>3, Limits
  <2>4. Calm(m, s)'
    BY <1>1, <1>2, <1>3, <1>6, <1>9, <2>2, Fresh
  <2>5. QED
    BY <1>7, <1>9, <2>4
<1>10. CASE getTimePtr /\ Unset(Minute(CaughtUp), CaughtUp % SECS_PER_MIN)
  <2>1. PICK n \in 0 .. Hour - 1, u \in 0 .. SECS_PER_MIN - 1 :
          n = Minute(CaughtUp) /\ u = CaughtUp % SECS_PER_MIN
    BY ClockMinute
  <2>2. CASE t = CaughtUp
    <3>1. Unset(n, u)'
      BY <1>1, <1>2, <1>3, <1>10, <2>1, <2>2, UnsetStamps
    <3>2. Minute(CaughtUp)' = n /\ (CaughtUp % SECS_PER_MIN)' = u
      BY <1>3, <2>1, <2>2 DEF Minute
    <3>3. QED
      BY <1>3, <1>10, <3>1, <3>2 DEF Mood
  <2>3. CASE t \in Window
    BY <1>9, <1>10, <2>1, <2>3
  <2>4. QED
    BY <1>3, <2>2, <2>3
<1>11. CASE getTimePtr /\ CaughtUp \in Window /\ Jumped
  <2>1. t \in Window
    BY <1>3, <1>11
  <2>2. QED
    BY <1>5, <1>9, <1>11, <2>1
<1>12. QED
  BY <1>4, <1>8, <1>10, <1>11 DEF Mood
\* Populate goes on to ask.
LEMMA AskingKeepsMood ==
  ASSUME Brisk, Watch, Mood, at = "check", at' = "ask",
         UNCHANGED <<getTimePtr, quiet, busy>>
  PROVE  Mood'
<1>1. Delay' = Delay /\ Longest' = Longest
  BY Limits DEF Delay
<1>2. quiet + Delay <= Longest
  <2>1. CASE Asking
    BY <2>1 DEF Asking
  <2>2. CASE ~Asking
    <3>1. PICK m \in 0 .. Hour - 1, s \in 0 .. SECS_PER_MIN - 1 :
            m = Minute(Slowest) /\ s = Slowest % SECS_PER_MIN
      BY WindowMinute
    <3>2. PICK n \in 0 .. Hour - 1, u \in 0 .. SECS_PER_MIN - 1 :
            n = Minute(CaughtUp) /\ u = CaughtUp % SECS_PER_MIN
      BY ClockMinute
    <3>3. Calm(m, s) \/ Unset(n, u) \/ Jumped
      BY <2>2, <3>1, <3>2 DEF Mood
    <3>4. QED
      BY <3>3, AsksInTime
  <2>3. QED
    BY <2>1, <2>2
<1>3. QED
  BY <1>1, <1>2 DEF Asking, Mood

LEMMA CheckKeepsMood == ASSUME Brisk, Watch, Watch', Mood, Check PROVE Mood'
<1>1. PICK t \in Times : Now(t) /\ at' = IF Due(Minute(t)) THEN "ask" ELSE "host"
  BY DEF Check
<1>2. at = "check" /\ ~m_bIsFirstCommand /\ UNCHANGED <<last_connect, quiet, busy>>
  BY DEF Check, history
<1>3. /\ getTimePtr' = getTimePtr /\ CaughtUp' = t /\ Slowest' = Slowest /\ Window' = Window
      /\ t = CaughtUp \/ (getTimePtr /\ t \in Window)
  BY <1>1, Reading
<1>4. CASE at' = "ask"
  BY <1>2, <1>3, <1>4, AskingKeepsMood
<1>5. CASE at' # "ask"
  <2>1. at' = "host" /\ Minute(t) = last_connect
    <3>1. Minute(t) \in Nat /\ last_connect \in Nat
      BY Lengths, Sizes DEF Minute, Times, Watch
    <3>2. QED
      BY <1>1, <1>5, <3>1 DEF Due, UPDATE_INTERVAL
  <2>2. PICK m \in 0 .. Hour - 1, s \in 0 .. SECS_PER_MIN - 1 :
          m = Minute(Slowest) /\ s = Slowest % SECS_PER_MIN
    BY WindowMinute
  <2>3. PICK n \in 0 .. Hour - 1, u \in 0 .. SECS_PER_MIN - 1 :
          n = Minute(CaughtUp) /\ u = CaughtUp % SECS_PER_MIN
    BY ClockMinute
  <2>4. ASSUME t \in Window
        PROVE  last_connect = m \/ (last_connect = Follow(m) /\ s + Spread >= SECS_PER_MIN)
    BY <2>1, <2>2, <2>4, WindowMinute
  <2>5. ASSUME t \in Window, Calm(m, s)' PROVE Mood'
    <3>1. Minute(Slowest)' = m /\ (Slowest % SECS_PER_MIN)' = s
      BY <1>3, <2>2 DEF Minute
    <3>2. QED
      BY <1>3, <2>5, <3>1 DEF Mood
  <2>6. CASE CaughtUp \in Window /\ Calm(m, s)
    <3>1. t \in Window
      BY <1>3, <2>6
    <3>2. Calm(m, s)'
      BY <1>2, <1>3, <2>1, <2>4, <2>6, <3>1, CalmStamps
    <3>3. QED
      BY <2>5, <3>1, <3>2
  <2>7. ASSUME getTimePtr, t \in Window, Unset(n, u) \/ Jumped PROVE Mood'
    <3>1. last_connect \in 0 .. Hour - 1
      BY DEF Watch
    <3>2. quiet + 2 * SECS_PER_MIN + Notice + Spread - AMinute(last_connect # Hour - 1) <= Longest
      BY <1>2, <2>7, <3>1, LeapInTime
    <3>3. Longest' = Longest
      BY <1>3, Limits
    <3>4. Calm(m, s)'
      BY <1>2, <1>3, <2>1, <2>4, <2>7, <3>2, Fresh
    <3>5. QED
      BY <2>5, <2>7, <3>4
  <2>8. CASE getTimePtr /\ Unset(n, u)
    <3>1. CASE t = CaughtUp
      <4>1. Unset(n, u)'
        BY <1>2, <1>3, <2>1, <2>3, <2>8, <3>1, UnsetStamps
      <4>2. Minute(CaughtUp)' = n /\ (CaughtUp % SECS_PER_MIN)' = u
        BY <1>3, <2>3, <3>1 DEF Minute
      <4>3. QED
        BY <1>3, <2>8, <4>1, <4>2 DEF Mood
    <3>2. QED
      BY <1>3, <2>7, <2>8, <3>1
  <2>9. CASE getTimePtr /\ CaughtUp \in Window /\ Jumped
    BY <1>3, <2>7, <2>9
  <2>10. ~Asking
    BY <1>2 DEF Asking
  <2>11. QED
    BY <2>2, <2>3, <2>6, <2>8, <2>9, <2>10 DEF Mood
<1>6. QED
  BY <1>4, <1>5

\* A request begins the silence anew.
LEMMA AskKeepsMood == ASSUME Brisk, Watch, Watch', Ask PROVE Mood'
<1> USE Sizes
<1>1. PICK t \in Times : Now(t) /\ last_connect' = Minute(t)
  BY DEF Ask, Stamp
<1>2. at' = "host" /\ quiet' = 0
  BY DEF Ask
<1>3. /\ getTimePtr' = getTimePtr /\ CaughtUp' = t /\ Slowest' = Slowest /\ Window' = Window
      /\ t = CaughtUp \/ (getTimePtr /\ t \in Window)
  BY <1>1, Reading
<1>4. PICK m \in 0 .. Hour - 1, s \in 0 .. SECS_PER_MIN - 1 :
        m = Minute(Slowest) /\ s = Slowest % SECS_PER_MIN
  BY WindowMinute
<1>5. last_connect' \in 0 .. Hour - 1
  BY DEF Watch
<1>6. CASE t \in Window
  <2>1. Minute(t) = m \/ (Minute(t) = Follow(m) /\ s + Spread >= SECS_PER_MIN)
    BY <1>4, <1>6, WindowMinute
  <2>2. /\ Longest' = Longest /\ Longest \in Nat
        /\ 2 * SECS_PER_MIN + Notice + Spread <= Longest /\ Notice \in Nat /\ Spread \in Nat
    BY <1>3, Limits DEF Watch
  <2>3. quiet' + 2 * SECS_PER_MIN + Notice + Spread - AMinute(last_connect' # Hour - 1) <= Longest
    BY <1>2, <2>2 DEF AMinute
  <2>4. Calm(m, s)'
    BY <1>1, <1>2, <1>3, <2>1, <2>3, Fresh
  <2>5. Minute(Slowest)' = m /\ (Slowest % SECS_PER_MIN)' = s
    BY <1>3, <1>4 DEF Minute
  <2>6. QED
    BY <1>3, <1>6, <2>4, <2>5 DEF Mood
<1>7. CASE t = CaughtUp /\ getTimePtr
  <2>1. PICK n \in 0 .. Hour - 1, u \in 0 .. SECS_PER_MIN - 1 :
          n = Minute(t) /\ u = t % SECS_PER_MIN
    BY <1>7, ClockMinute
  <2>2. n # Follow(n)
    BY Follows
  <2>3. Near(n, u)'
    BY <1>1, <1>2, <2>1, <2>2 DEF Near
  <2>4. Expires(n, u)' = SECS_PER_MIN - u + Notice
    BY <1>1, <2>1 DEF Expires
  <2>5. /\ Longest' = SECS_PER_MIN + Notice + Round /\ Notice \in Nat /\ Round \in Nat
    BY <1>3, <1>7, Limits
  <2>6. Unset(n, u)'
    BY <1>1, <1>2, <2>1, <2>3, <2>4, <2>5 DEF Unset, AMinute
  <2>7. Minute(CaughtUp)' = n /\ (CaughtUp % SECS_PER_MIN)' = u
    BY <1>3, <2>1 DEF Minute
  <2>8. QED
    BY <1>3, <1>7, <2>6, <2>7 DEF Mood
<1>8. CASE ~getTimePtr
  BY <1>3, <1>6, <1>8, ClockMinute
<1>9. QED
  BY <1>3, <1>6, <1>7, <1>8
\* A tick within the minute.
LEMMA MinuteGoesOn ==
  ASSUME Brisk, Watch, NEW m \in 0 .. Hour - 1, NEW s \in 0 .. SECS_PER_MIN - 2,
         busy < MaxBusy, busy' = busy + 1, quiet' = quiet + 1,
         UNCHANGED <<at, last_connect, m_bIsFirstCommand, getTimePtr>>
  PROVE  /\ Calm(m, s) => Calm(m, s + 1)'
         /\ Unset(m, s) => Unset(m, s + 1)'
<1> USE Sizes, Limits
<1>1. quiet \in Nat /\ busy \in 0 .. MaxBusy /\ Delay' = Delay - 1
  BY DEF Watch, Delay
<1>2. Near(m, s) => Near(m, s + 1)'
  BY <1>1 DEF Near
<1>3. Expires(m, s) \in Int /\ Expires(m, s + 1)' = Expires(m, s) - 1
  <2>1. s \in Nat
    OBVIOUS
  <2>2. Expires(m, s) \in Int
    BY <2>1 DEF Expires
  <2>3. /\ last_connect = m => Expires(m, s + 1)' = SECS_PER_MIN - (s + 1) + Notice
                               /\ Expires(m, s) = SECS_PER_MIN - s + Notice
        /\ last_connect # m /\ last_connect = Follow(m) =>
             /\ Expires(m, s + 1)' = 2 * SECS_PER_MIN - (s + 1) + Notice
             /\ Expires(m, s) = 2 * SECS_PER_MIN - s + Notice
        /\ last_connect # m /\ last_connect # Follow(m) =>
             /\ Expires(m, s + 1)' = Notice - (s + 1)
             /\ Expires(m, s) = Notice - s
    BY DEF Expires
  <2>4. QED
    BY <2>1, <2>2, <2>3
<1>4. Calm(m, s) => Calm(m, s + 1)'
  BY <1>1, <1>2, <1>3 DEF Calm, AMinute
<1>5. Unset(m, s) => Unset(m, s + 1)'
  BY <1>1, <1>2, <1>3 DEF Unset, AMinute
<1>6. QED
  BY <1>4, <1>5

\* The last tick of the minute: by then, whatever the minute before it left to do is done.
LEMMA MinuteEnds ==
  ASSUME Brisk, Watch, NEW m \in 0 .. Hour - 1, NEW s, s = SECS_PER_MIN - 1,
         busy < MaxBusy, busy' = busy + 1, quiet' = quiet + 1,
         UNCHANGED <<at, last_connect, m_bIsFirstCommand, getTimePtr>>
  PROVE  /\ Calm(m, s) => Calm(Follow(m), 0)'
         /\ Unset(m, s) => Unset(Follow(m), 0)'
<1> USE Sizes, Limits
<1>1. quiet \in Nat /\ busy \in 0 .. MaxBusy /\ Delay' = Delay - 1
  BY DEF Watch, Delay
<1>2. Delay' <= Notice /\ Delay' \in Nat /\ (at = "reset" => Delay' <= MaxBusy - 1) /\ Delay > 0
  BY <1>1 DEF Delay, Watch
<1>3. PICK f \in 0 .. Hour - 1 : f = Follow(m) /\ f # m /\ m # Follow(f)
  BY Follows
<1>4. ASSUME Near(m, s) PROVE last_connect = m \/ last_connect = f
  <2>1. ~(s + Delay <= Notice)
    BY <1>1, <1>2
  <2>2. QED
    BY <1>3, <1>4, <2>1 DEF Near
<1>5. ASSUME Near(m, s), last_connect = m
      PROVE  Near(f, 0)' /\ Expires(f, 0)' = Notice /\ Expires(m, s) = 1 + Notice
  <2>1. at = "reset" => m = Hour - 1
    BY <1>1, <1>2, <1>5 DEF Near
  <2>2. Near(f, 0)'
    BY <1>2, <1>3, <1>5, <2>1 DEF Near
  <2>3. last_connect' # f /\ last_connect' # Follow(f)
    BY <1>3, <1>5
  <2>4. Expires(f, 0)' = Notice
    BY <2>3 DEF Expires
  <2>5. QED
    BY <1>5, <2>2, <2>4 DEF Expires
<1>6. ASSUME Near(m, s), last_connect = f
      PROVE  /\ Near(f, 0)' /\ Expires(f, 0)' = SECS_PER_MIN + Notice
             /\ Expires(m, s) = 1 + SECS_PER_MIN + Notice
  <2>1. f # Follow(f)
    BY <1>3, Follows
  <2>2. Near(f, 0)'
    BY <1>2, <1>6, <2>1 DEF Near
  <2>3. QED
    BY <1>3, <1>6, <2>2 DEF Expires
<1>7. Calm(m, s) => Calm(f, 0)'
  BY <1>1, <1>4, <1>5, <1>6 DEF Calm, AMinute
<1>8. Unset(m, s) => Unset(f, 0)'
  <2>1. SUFFICES ASSUME Unset(m, s) PROVE Unset(f, 0)'
    OBVIOUS
  <2>2. last_connect = m
    BY <1>3, <1>4, <2>1 DEF Unset
  <2>3. QED
    BY <1>1, <1>3, <1>5, <2>1, <2>2 DEF Unset, AMinute
<1>9. QED
  BY <1>3, <1>7, <1>8

LEMMA PassingKeepsMood == ASSUME Brisk, Watch, Mood, Passing PROVE Mood'
<1> USE Sizes
<1>1. /\ busy < MaxBusy /\ busy' = busy + 1 /\ quiet' = quiet + 1 /\ ahead' = ahead + 1
      /\ time' = (time + 1) % SECS_PER_HOUR
      /\ UNCHANGED <<sysTime, getTimePtr, at, last_connect, m_bIsFirstCommand>>
  BY DEF Passing, Tick, service
<1>2. CaughtUp' = (CaughtUp + 1) % SECS_PER_HOUR
  <2>1. sysTime + ahead \in Nat /\ sysTime' + ahead' = (sysTime + ahead) + 1
    BY <1>1 DEF Watch, Times
  <2>2. QED
    BY <2>1, HourShift DEF CaughtUp
<1>3. Slowest' = (Slowest + 1) % SECS_PER_HOUR
  <2>1. CASE getTimePtr
    <3>1. PICK p \in Nat : p = SECS_PER_HOUR - MaxLate
      BY ClockAssumption
    <3>2. (((time + 1) % SECS_PER_HOUR) + p) % SECS_PER_HOUR = ((time + 1) + p) % SECS_PER_HOUR
      BY <3>1, HourShift DEF Watch, Times
    <3>3. (((time + p) % SECS_PER_HOUR) + 1) % SECS_PER_HOUR = ((time + p) + 1) % SECS_PER_HOUR
      <4>1. PICK n \in Nat : n = time + p
        BY <3>1 DEF Watch, Times
      <4>2. ((n % SECS_PER_HOUR) + 1) % SECS_PER_HOUR = (n + 1) % SECS_PER_HOUR
        BY HourShift
      <4>3. QED
        BY <4>1, <4>2
    <3>4. time \in Nat /\ (time + 1) % SECS_PER_HOUR \in Nat
      BY DEF Watch, Times
    <3>5. /\ time + SECS_PER_HOUR - MaxLate = time + p
          /\ ((time + 1) % SECS_PER_HOUR) + SECS_PER_HOUR - MaxLate
             = ((time + 1) % SECS_PER_HOUR) + p
          /\ (time + 1) + p = (time + p) + 1
      BY <3>1, <3>4
    <3>6. Slowest = (time + p) % SECS_PER_HOUR
      BY <2>1, <3>5 DEF Slowest
    <3>7. Slowest' = (((time + 1) % SECS_PER_HOUR) + p) % SECS_PER_HOUR
      BY <1>1, <2>1, <3>5 DEF Slowest
    <3>8. QED
      BY <3>2, <3>3, <3>5, <3>6, <3>7
  <2>2. CASE ~getTimePtr
    BY <1>1, <1>2, <2>2 DEF Slowest
  <2>3. QED
    BY <2>1, <2>2 DEF Watch
<1>4. CaughtUp \in Window => CaughtUp' \in Window'
  <2>1. SUFFICES ASSUME CaughtUp \in Window PROVE CaughtUp' \in Window'
    OBVIOUS
  <2>2. PICK j \in 0 .. Spread : CaughtUp = (Slowest + j) % SECS_PER_HOUR
    BY <2>1 DEF Window
  <2>3. Slowest \in Nat /\ j \in Nat
    BY WindowMinute, Limits DEF Times
  <2>4. (((Slowest + j) % SECS_PER_HOUR) + 1) % SECS_PER_HOUR = ((Slowest + j) + 1) % SECS_PER_HOUR
    <3>1. PICK n \in Nat : n = Slowest + j
      BY <2>3
    <3>2. ((n % SECS_PER_HOUR) + 1) % SECS_PER_HOUR = (n + 1) % SECS_PER_HOUR
      BY HourShift
    <3>3. QED
      BY <3>1, <3>2
  <2>5. (((Slowest + 1) % SECS_PER_HOUR) + j) % SECS_PER_HOUR = ((Slowest + 1) + j) % SECS_PER_HOUR
    BY <2>3, HourShift
  <2>6. (Slowest + j) + 1 = (Slowest + 1) + j
    BY <2>3
  <2>7. CaughtUp' = (Slowest' + j) % SECS_PER_HOUR
    BY <1>2, <1>3, <2>2, <2>4, <2>5, <2>6
  <2>8. Spread' = Spread
    BY <1>1 DEF Spread
  <2>9. QED
    BY <2>7, <2>8 DEF Window
\* The minute and the second of a clock a tick later.
<1>5. ASSUME NEW z \in Times, NEW m, NEW s, m = Minute(z), s = z % SECS_PER_MIN
      PROVE  /\ m \in 0 .. Hour - 1 /\ s \in 0 .. SECS_PER_MIN - 1
             /\ s # SECS_PER_MIN - 1 => /\ Minute((z + 1) % SECS_PER_HOUR) = m
                                        /\ ((z + 1) % SECS_PER_HOUR) % SECS_PER_MIN = s + 1
             /\ s = SECS_PER_MIN - 1 => /\ Minute((z + 1) % SECS_PER_HOUR) = Follow(m)
                                        /\ ((z + 1) % SECS_PER_HOUR) % SECS_PER_MIN = 0
  <2>1. 1 \in 0 .. SECS_PER_MIN - 1
    OBVIOUS
  <2>2. m \in 0 .. Hour - 1 /\ s \in 0 .. SECS_PER_MIN - 1
    BY <1>5, <2>1, Later
  <2>3. s # SECS_PER_MIN - 1 => s + 1 < SECS_PER_MIN
    BY <2>2
  <2>4. s = SECS_PER_MIN - 1 => s + 1 >= SECS_PER_MIN /\ s + 1 - SECS_PER_MIN = 0
    BY <2>2
  <2>5. QED
    BY <1>5, <2>1, <2>2, <2>3, <2>4, Later
<1>6. CASE Asking
  <2>1. Delay' = Delay - 1 /\ quiet \in Int /\ Delay \in Int /\ Longest' = Longest
    BY <1>1, Limits DEF Delay, Watch
  <2>2. QED
    BY <1>1, <1>6, <2>1 DEF Asking, Mood
<1>7. CASE CaughtUp \in Window /\ Calm(Minute(Slowest), Slowest % SECS_PER_MIN)
  <2>1. PICK m, s : m = Minute(Slowest) /\ s = Slowest % SECS_PER_MIN
    OBVIOUS
  <2>2. Slowest \in Times
    BY WindowMinute
  <2>3. Minute(Slowest)' = Minute(Slowest') /\ (Slowest % SECS_PER_MIN)' = Slowest' % SECS_PER_MIN
    BY DEF Minute
  <2>4. m \in 0 .. Hour - 1 /\ s \in 0 .. SECS_PER_MIN - 1
    BY <1>5, <2>1, <2>2
  <2>5. CASE s # SECS_PER_MIN - 1
    <3>1. s \in 0 .. SECS_PER_MIN - 2
      BY <2>4, <2>5
    <3>2. Calm(m, s + 1)'
      BY <1>1, <1>7, <2>1, <2>4, <3>1, MinuteGoesOn
    <3>3. Minute(Slowest') = m /\ Slowest' % SECS_PER_MIN = s + 1
      BY <1>3, <1>5, <2>1, <2>2, <2>5
    <3>4. QED
      BY <1>4, <1>7, <2>3, <3>2, <3>3 DEF Mood
  <2>6. CASE s = SECS_PER_MIN - 1
    <3>1. Calm(Follow(m), 0)'
      BY <1>1, <1>7, <2>1, <2>4, <2>6, MinuteEnds
    <3>2. Minute(Slowest') = Follow(m) /\ Slowest' % SECS_PER_MIN = 0
      BY <1>3, <1>5, <2>1, <2>2, <2>6
    <3>3. QED
      BY <1>4, <1>7, <2>3, <3>1, <3>2 DEF Mood
  <2>7. QED
    BY <2>5, <2>6
<1>8. CASE getTimePtr /\ Unset(Minute(CaughtUp), CaughtUp % SECS_PER_MIN)
  <2>1. PICK m, s : m = Minute(CaughtUp) /\ s = CaughtUp % SECS_PER_MIN
    OBVIOUS
  <2>2. CaughtUp \in Times
    BY ClockMinute
  <2>3. Minute(CaughtUp)' = Minute(CaughtUp') /\ (CaughtUp % SECS_PER_MIN)' = CaughtUp' % SECS_PER_MIN
    BY DEF Minute
  <2>4. m \in 0 .. Hour - 1 /\ s \in 0 .. SECS_PER_MIN - 1
    BY <1>5, <2>1, <2>2
  <2>5. CASE s # SECS_PER_MIN - 1
    <3>1. s \in 0 .. SECS_PER_MIN - 2
      BY <2>4, <2>5
    <3>2. Unset(m, s + 1)'
      BY <1>1, <1>8, <2>1, <2>4, <3>1, MinuteGoesOn
    <3>3. Minute(CaughtUp') = m /\ CaughtUp' % SECS_PER_MIN = s + 1
      BY <1>2, <1>5, <2>1, <2>2, <2>5
    <3>4. QED
      BY <1>1, <1>8, <2>3, <3>2, <3>3 DEF Mood
  <2>6. CASE s = SECS_PER_MIN - 1
    <3>1. Unset(Follow(m), 0)'
      BY <1>1, <1>8, <2>1, <2>4, <2>6, MinuteEnds
    <3>2. Minute(CaughtUp') = Follow(m) /\ CaughtUp' % SECS_PER_MIN = 0
      BY <1>2, <1>5, <2>1, <2>2, <2>6
    <3>3. QED
      BY <1>1, <1>8, <2>3, <3>1, <3>2 DEF Mood
  <2>7. QED
    BY <2>5, <2>6
<1>9. CASE getTimePtr /\ CaughtUp \in Window /\ Jumped
  <2>1. Delay' = Delay - 1 /\ quiet \in Int /\ Delay \in Int /\ Longest' = Longest
    BY <1>1, Limits DEF Delay, Watch
  <2>2. AMinute(at' = "check" /\ last_connect' # Hour - 1) = AMinute(at = "check" /\ last_connect # Hour - 1)
    BY <1>1
  <2>3. Jumped'
    <3>1. AMinute(at = "check" /\ last_connect # Hour - 1) \in Int /\ Round \in Int /\ Longest \in Int
      BY Limits DEF AMinute
    <3>2. quiet' + Delay' + Round - AMinute(at' = "check" /\ last_connect' # Hour - 1) <= Longest'
      BY <1>1, <1>9, <2>1, <2>2, <3>1 DEF Jumped
    <3>3. QED
      BY <1>1, <1>9, <3>2 DEF Jumped, AMinute, Round, Notice
  <2>4. QED
    BY <1>1, <1>4, <1>9, <2>3 DEF Mood
<1>10. QED
  BY <1>6, <1>7, <1>8, <1>9 DEF Mood

LEMMA AskStarts == ASSUME Brisk, Init PROVE AskInv
<1> USE Sizes
<1>1. Watch
  BY ClockAssumption DEF Init, ClockInit, Watch, Times
<1>2. CaughtUp = 0 /\ Minute(0) = 0 /\ 0 % SECS_PER_MIN = 0
  BY DEF Init, ClockInit, CaughtUp, Minute
<1>3. Near(0, 0)
  BY <1>1, <1>2, Follows DEF Init, Near
<1>4. quiet = 0 /\ at = "host" /\ Expires(0, 0) = SECS_PER_MIN + Notice /\ last_connect = 0
  BY DEF Init, Expires
<1>5. Longest \in Nat /\ Round \in Nat /\ Notice \in Nat
      /\ (getTimePtr => Longest = SECS_PER_MIN + Notice + Round)
      /\ (~getTimePtr => Longest = 2 * SECS_PER_MIN + Notice)
  BY <1>1, Limits
<1>6. CASE getTimePtr
  BY <1>1, <1>2, <1>3, <1>4, <1>5, <1>6 DEF Unset, AMinute, Mood, AskInv
<1>7. CASE ~getTimePtr
  <2>1. Calm(0, 0)
    BY <1>3, <1>4, <1>5, <1>7 DEF Calm, AMinute
  <2>2. QED
    BY <1>1, <1>2, <1>7, <2>1, ClockMinute DEF Mood, AskInv
<1>8. QED
  BY <1>1, <1>6, <1>7 DEF Watch

LEMMA AskNext == ASSUME Brisk, AskInv, [Next]_vars PROVE AskInv'
<1>1. Watch'
  BY WatchNext DEF AskInv
<1>2. ASSUME CheckFirst PROVE AskInv'
  <2>1. /\ at = "check" /\ at' = "ask"
        /\ UNCHANGED <<getTimePtr, quiet, busy>>
    BY <1>2 DEF CheckFirst, timeVars, history
  <2>2. Mood'
    BY <2>1, AskingKeepsMood DEF AskInv
  <2>3. QED
    BY <1>1, <2>2 DEF AskInv
<1>3. CASE HandleResult \/ Update \/ Lose \/ Surroundings \/ UNCHANGED vars
  <2>1. /\ UNCHANGED <<sysTime, ahead, time, getTimePtr, at, last_connect, m_bIsFirstCommand>>
        /\ UNCHANGED <<busy, quiet>>
    BY <1>3 DEF HandleResult, Update, Lose, Surroundings, vars, timeVars, service, history
  <2>2. Mood'
    BY <2>1 DEF AskInv, Mood, Asking, Calm, Unset, Jumped, Near, Expires, Delay, AMinute, Longest,
                Window, Slowest, Spread, CaughtUp, Minute
  <2>3. QED
    BY <1>1, <2>2 DEF AskInv
<1>4. QED
  BY <1>1, <1>2, <1>3, CompareKeepsMood, ResetKeepsMood, CheckKeepsMood, AskKeepsMood,
     PassingKeepsMood DEF AskInv, Next, Populate

\* The service never falls silent for longer than the wrap of the hour, the reset of
\* the clock and the passes of the host account for (Populate,
\* ERxPachubeService.cpp:75-78), provided two passes of the host and the lateness of a
\* provider are over within a minute: for any length of the minute and of the hour, any
\* time at the start, and a provider asked as often and as seldom as one likes.
THEOREM NeverSilent == ASSUME Brisk PROVE Spec => []KeepsAsking
<1>1. Init => AskInv
  BY AskStarts
<1>2. AskInv /\ [Next]_vars => AskInv'
  BY AskNext
<1>3. AskInv => KeepsAsking
  <2>1. SUFFICES ASSUME AskInv PROVE quiet <= Longest
    BY Sizes DEF KeepsAsking, Longest, Round, Notice
  <2> USE Sizes, Limits
  <2>2. Watch /\ quiet \in Nat /\ busy \in 0 .. MaxBusy
    BY <2>1 DEF AskInv, Watch
  <2>3. Delay \in Nat /\ Longest \in Nat
    BY <2>2
  <2>4. CASE Asking
    BY <2>2, <2>3, <2>4 DEF Asking
  <2>5. ASSUME NEW m, NEW s \in 0 .. SECS_PER_MIN - 1, Near(m, s)
        PROVE  Expires(m, s) \in Nat
    BY <2>2, <2>3, <2>5 DEF Near, Expires
  <2>6. ASSUME NEW m, NEW s \in 0 .. SECS_PER_MIN - 1, Calm(m, s) \/ Unset(m, s)
        PROVE  quiet <= Longest
    <3>1. Expires(m, s) \in Nat
      BY <2>5, <2>6 DEF Calm, Unset
    <3>2. QED
      BY <2>2, <2>3, <2>6, <3>1 DEF Calm, Unset, AMinute
  <2>7. CASE Jumped
    BY <2>2, <2>3, <2>7 DEF Jumped, AMinute
  <2>8. QED
    BY <2>1, <2>2, <2>4, <2>6, <2>7, WindowMinute, ClockMinute DEF AskInv, Mood
<1>4. QED
  BY <1>1, <1>2, <1>3, PTL DEF Spec
=============================================================================
