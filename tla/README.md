# A verification of easyrobot

easyrobot is a service framework for Arduino boards.  A *host* runs a list of
*services*; a service populates commands, executes them, or handles their
results.  Commands are lines of text.  They arrive on a UART, from an infrared remote
control or from a clock, and a *message router* wraps them to send them to other
boards of a radio network.

This directory holds TLA+ modules of the framework, TLC configurations that check
them on small instances, and proofs that TLAPS checks for every instance.
Paths below are relative to `src/libs/` unless they begin with `src/`.

## The system

| Part | State | Operations | What makes it correct |
|---|---|---|---|
| Ring buffer, `ERxCore/ERxRingBuffer.h` | an array, `m_iHeadIndex`, `m_iTailIndex` | `Append`, `Pop`, `Flush`, `ResetTailIndex`, the observers | it is a queue of `BUFFER_CAPACITY - 1` elements; a rewind reaches what was read and not overwritten |
| Redirecting output stream, `ERxOutputStream/ERxRedirectOutputStream.cpp` | a cache, two flags, a prefix, the global `previous_flush` | `write`, `flush`, `SetPrefix` | packets carry exactly what was written, each with the prefix, sent where a frame ends, an interval apart |
| Parameter stream, `ERxIOStream/ERxIOStream.cpp` | a buffer, a read and a write position | `write`, `read`, `flush`, `resetIterator`, `parseULong` | every service reads the whole parameter, whatever services before it read |
| Host and context, `ERxService/` | the services, the command, the cached parameter size, `isCommandExecuted`, the result, the overriding stream | `Run`, `Execute`, `HandleResult` | the three-state machine of `src/readme.md` |
| Message router, `ERxMessageRouterService/` | `bIsRouting`, `bRelayMessage` | `Execute` | a command for this node is executed once and its result goes back to its sender; others are relayed; one prefix is taken off for each router |
| System service, `ERxSystemService/` | none | `Execute` | a result from another node is dispatched, not executed |
| Generator, executor, `ERxCommandGeneratorService/`, `ERxCommandExecutorService/` | their command | `Populate`, `HandleResult`; `Execute` | a generator prints the results of its own command |
| Network of nodes, `src/readme.md` "Arduino network" | packets on the air | send, relay, return a result | each request is executed once and answered to whoever asked; traffic is bounded |
| Text message, `ERxTextMessage/` | two rings, three flags | `available`, `invalidate`, `read`, `parseULong` | frames are cut where the sender ended them |
| UART receiver, `ERxUARTCmdReceiverService/` | its text message | `Populate` | each frame becomes at most one command |
| Instruction frames, `ERxProtocol/` | a frame, a ring | `Update`, `SetInstruction`, `GetFirstInstruction` | whatever the polls cut, each frame sent is returned once and in order; what is no frame is never returned |
| Commander, `ERxCommander/` | a ring of commands, ten receivers | `GetNextPendingCommand`, `RegisterCommandReceiver` | commands are handed out once, in order |
| Infrared, `ERxIRControllerService/`, `ERxIRCmdReceiverService/`, `IRremote/` | `irparams`, which the interrupt shares with the main loop; `m_toggle` | `SendIR`; the timer interrupt, `decode`, `resume` | what is heard is what was sent; the receiver goes on listening |
| Pachube, `ERxPachubeService/`, `ERxPachube/`, `Ethernet/EthernetClient.cpp` | `last_connect`, `m_bIsFirstCommand`; a socket | `Populate`, `HandleResult`, `updatePachube` | about one upload a minute, never more than five, never none; a status is that of its upload |
| Time, `Time/` | `sysTime`, `prevMillis`, `nextSyncTime`, the provider | `now`, `setTime` | the minute of the service above |
| DHCP client, `Ethernet/Dhcp.cpp` | transaction numbers, what the last answers said | `Ethernet.begin(mac)` | the address is one a server granted to this client, with the options of that server; the call returns |
| Two-wire interface, `Wire/` | the buffers and `twi_state`, which the interrupt shares with the calls | `endTransmission`, `requestFrom`, the callbacks | a call returns, and returns what the other side saw |
| Motors, `ERxMotorService/`, ... | the motors of a service | `Execute` | a command sets the pins it names |
| Sensors, `ERxTHDetectionService/`, `ERxAM2311/`, `DHT11/` | the last reading | `Execute` | a reading is the sensor's |
| Other vendored code: `Arduino`, `AccelStepper`, `WebServer`, `SPI`, `Servo`, ... | | | taken as it is |
| Sketches: `src/Projects`, `src/Samples`, `src/TestCases` | | | users of the above |

How they interact.  `loop()` calls `ERxHost::Run`.  Run calls `Populate` of each
service in turn; a service that leaves a command in the shared context makes the
host call `Execute` of the services until one marks the command executed, and then
`HandleResult` of all of them with the result.  The router and the system service
hold a pointer to the host and call `Execute` and `HandleResult` back from inside
their own `Execute`, so the calls nest while all of them share one context.  While
a routed command executes, the context's result stream is overridden by a
redirecting stream on the router's stack, which sends packets to the radio.  Another
board's UART receiver polls a text message, which takes characters from the stream
the receive interrupt fills.  The Pachube service populates a request for a sensor
every minute, here or on another board, and uploads each result it sees over the
Ethernet chip, whose address `setup()` got by DHCP.  The infrared receiver and the
sensors on the two-wire bus share state with an interrupt handler each.

What is hard.  A board has one thread and its interrupts; boards share a radio, a
bus, a light path.  The difficulties are: shared state that a nested call changes
under its caller; a pointer to a stack object; state that an interrupt and the main
loop write; caches that fill at any point of a frame; text that arrives in any
pieces; clocks and counters that wrap; late, lost and repeated answers; calls that
spin until somebody else acts; and modes (DATA, overflow, routing) that have to end
on every path.  `PROJECT.json` lists each hazard with its line and the properties
that would show it.

## The modules

### One board

**`RingBuffer`** is `ERxRingBuffer`, one action for each member function that
changes it.  `ResetTailIndex` takes whatever index a caller passes; the frame
parser (`SerialComHelper`) passes indices it read from a copy of the buffer.  The
history variable `behind` counts the elements behind the tail that are not
overwritten; it states which indices a caller may pass.  The slots are data, so
`Data` is any set.  **`BoundedFifo`** is what the buffer promises: a queue, the
elements read last, and a read position that moves between them.
**`RingBufferProofs`** holds the theorems.

**`RedirectStream`** has the functions of `ERxRedirectOutputStream` as operators on
a record, because the router makes such streams on its stack; and
**`RedirectOutputStream`** is one such stream in use, with the clock: `now` is
`millis()` modulo `Clock`, `since` and `waited` measure real time, and `asked` tells the
packets that the owner's own flush sent from those that `write` sent.

**`Protocol`** has the command numbers, the parameter stream as a value with the
operators `Store`, `Parsed`, `Reset`, ..., and the kinds of service.

**`Host`** is the host, its context and its services.  Its variable `stack` is the
call stack: one record for each active `Run`, `Execute`, `HandleResult`, router or
system call, with the service it is at and where it goes on.  A call pushes a
record, a return pops one, so that nested calls interleave with the callers'
steps exactly as in the program.  Each loop turn of `Execute` is
`BeginService`, the service's own action, `EndService`.  The service actions are:
`ExecutorExecute`; `SystemHelp`, `SystemResult`, `SystemNoResult`, `SystemReturn`;
`RouterDeliver`, `RouterReturn`, `RouterRelay`, `RouterDiscard`; and `Ignore`.
`Populate` covers the receiver, which may deliver any of `Messages`, and the
generator.  **`Dispatcher`** is the state machine of the readme, the abstract
specification of the host; **`Node`** is the other one: what a node answers to one
command, as a function of the command and without context, calls or streams.
**`HostProperties`** states the properties, **`HostProofs`** holds the theorems.

**`TextMessage`** has `ERxTextMessage::available()` as the operator `Polled` on a
record, composed of its numbered steps (`Filled`, `Discarded`, `Framed`,
`Overflowed`, `KeywordChecked`), and the two searches it uses.  The searches
differ: `peekFind` compares a character that breaks a match with the first
character of the target once more, `Stream::find` does not.
**`UartReceiver`** is `Populate` of the receiver: `PollNothing`, `PollFrame`, and
`Copy`, one turn of the copying loop, with `Arrive` between any two of them.
**`UartProperties`** compares what was handled with what was sent.

**`InstructionFrame`** has the bytes of a parameter (`StringBytes`, `ReadString`), of
a frame (`FrameBytes`), and `Search`, which is the loop of
`ERxInstructionFrame::Update` as a recursive function of the position: what it
finds and where the tail goes.
**`SerialComHelper`** composes it with `RingBuffer` (an `INSTANCE`, so each append and
each move of the tail is the ring's own action): a device sends, another polls
`GetFirstInstruction`, and the wire and the serial port lie between them.
`ReadSerial` is one turn of the loop that empties the port, because bytes arrive while
it runs; `Parse` is the rest of the call.  The copy of the ring that `Update` makes is
`Unread`, the sequence of what `Pop` will return; positions are counted in bytes
popped and become an index again in `NewTailIndex`, with the unsigned subtraction of
the program.  `Word` stands for 2^32; like it, it is a multiple of `Capacity`.

**`Commander`** is `ERxCommander` with a serial and an infrared receiver.  A call of
`GetNextPendingCommand` is a sequence of questions (`Receive`, `NextReceiver`), since
commands arrive between them, and ends with `Return`.  `heap` holds the commands that
`new` made and `delete` did not yet free.

### Several boards, and what is around them

**`Network`** composes nodes: `ServicesOf` gives the services of each board, `Hears`
who hears whom.  A board handles a packet in one step, with the answer of `Node`;
that `Host` computes this answer is `AnswersExactly` of the run `host`.  A terminal
sends and reads by itself.  `Lose` and `Repeat` are the radio's faults; packets are a
bag, so they overtake each other.

**`InfraredCode`** is what `SendIR` puts on the light for a code and what `decode`
makes of a recording, for NEC, Sony, RC5 and RC6, in microseconds and in ticks of the
timer.  **`Infrared`** composes the remote, the light, the interrupt handler
(`Interrupt`, and `More` for the many interrupts of one level) and the main loop of
the receiver service.  `resume()` is two steps, `Populate` up to its first store and
`Resume`, and the interrupt may come between them; `torn` remembers that it did, on
a beginning signal.

**`Dhcp`** is `request_DHCP_lease` and the socket below it.  One action stands for
one turn of its loop: `Start`, `Offered`, `Refused`, `Acknowledged`, `Ignored`,
`Overdue`, and `Sleep`, the delay between two looks at the socket, in which time
passes.  The servers answer when they hear a message; their answers are
on their way for up to `Latency`, or held up, lost, repeated, or meant for another
client.  A server gives some of the options (`Gives`), and what an answer leaves out
keeps its older value.  The loop over the options reads on into packets behind the first
(`Overruns`): any of the options may then be `Misread`.  **`DhcpProperties`** states what the caller relies on and **`DhcpProofs`**
proves its two invariants.

**`TwoWire`** is the Wire library on a master and a slave: the actions are the
cases of the interrupt handler in `twi.c`, the calls of the master's sketch, and the
bus (`Started`, `Addressed`, `Written`, `Fetched`, `Stopped`), which goes on when no unit
holds the clock.  The slave's receive callback runs between `EndReceive` and
`EndCallback`.

**`Clock`** is `now()`; **`Upload`** is `updatePachube` over the socket of an
`EthernetClient` and a server that may be slow, refuse or be down; **`Station`**
composes both with the Pachube service.  A call of its `Populate` is up to four steps
(`Compare`, `Reset`, `CheckFirst` or `Check`, `Ask`), since each `minute()` reads the
clock anew and may set it.

### What is abstracted

* Text is a sequence of tokens.  A number is one token, a word without digits is
  one token (`TXT`), CR and LF are themselves.  `Host` and `Protocol` leave out the
  spaces between tokens; `TextMessage` has a space only where a keyword needs it.
  Capacities count tokens.  So numbers are never cut in two by a full buffer, and
  the digits of a number are not accumulated.
* A character with the value 0 is `NUL` in `TextMessage`; elsewhere text has none.
* `isCommandSuccess` is written and never read.  It is left out.
* Pointers the constructors take (host, radio, buffers, printer) are not null; each
  router has a buffer of its own.
* `AddService` and `SetMyAddress` are called before the first `Run`.  They are the
  constants `Services` and `MyAddress`.
* In `Host` and `Network` the message of a poll is whole and ends with CR LF.
  `UartReceiver` models how it comes about.
* The bytes of `MCSerialComHelper` are 0 to 6 in place of NUL, LF, CR, `0`, `A`, `Z`
  and one too large for a length.  They keep their order, and header, CRC and footers
  are lengths a parameter can have, as they are in the program.  A frame with the
  longest parameter fills the ring, as the macros define it.
* Only the receiving side of a parameter stream and its writing of strings and single
  bytes is modelled; reading numbers back is not.
* A packet's time on the air is not modelled.  `delay` passes exactly its argument.
* The light keeps the order and the levels of a signal.  It stretches marks and
  shrinks spaces by the same time (`Distortions`), which is what `MARK_EXCESS`
  assumes of the detector, and a width may be a tick more.
* The main loop runs both stores of `resume()` within one tick of 50 us, so at most
  one interrupt comes between them.
* A router's prefix is kept by value (`ReplyStream`).  In the code it is the content of an
  array that is local to a block (`ERxMessageRouterService.cpp:74-92`); `SetPrefix` keeps a
  pointer to it (`ERxRedirectOutputStream.cpp:72`), which is used when the wrapped command
  writes its result, behind the block and the array's lifetime (line 95).  The language
  leaves open what is read then.  Nothing is declared in the function behind the block and
  the function has not returned, so in a build that gives the array a place of its own in
  the frame the bytes are still there.  The models take them to be, and no property says
  anything about it.
* An address of the DHCP model is the server that hands it out.  Bytes of a packet that is
  misread as options become options, but never a message type or a server identifier, which
  would take such a byte just where a code is looked for; nor an option whose length
  is beyond what is left in the socket, where `read()` goes on with whatever `recv` gives.  The initial
  transaction number, which is random in the code, is 0.
* A tick of `Clock` is a fraction of a minute, a minute has `SECS_PER_MIN` ticks and an
  hour `SECS_PER_HOUR`.  The contents of requests and answers, but for the status
  code, are left out of `Upload`, and with them the two counters that the service
  reports.
* The TWI units, the Ethernet chip, the network and the servers are external: they do
  what the library relies on and no more.

## The runs

Every run but `network_readme` finishes with no error.  The number is that of its
distinct states.

| Run | Instance | What it shows |
|---|---|---|
| `ring_buffer` (895) | 4 slots, 2 elements | `ImplementsFifo`: refinement of `BoundedFifo`; `WindowFits`: what a rewind reaches is not overwritten |
| `redirect_stream` (1.43 million) | cache of 4, prefix of 1, text of up to 5 tokens, clock of 8 with interval 2 | `NothingLost`, `FrameEndSendsPacket`, `Paced` |
| `host` (780) | 7 services, two of them routers of which one relays, 24 messages | the type, `OverrideLive`, `RoutingMatchesCalls`, `ParametersIntact`, `AnswersExactly`, `ImplementsDispatcher`, `ResultDispatched` |
| `network` (38 thousand) | a relaying coordinator, two boards, a terminal, two requests, a packet lost or repeated | `ExecutedOnce`, `ReturnsToAsker`, `TrafficBounded`, `Answered` |
| `network_readme` | the three boards of the readme | finding: `Answered` fails |
| `uart` (129 thousand) | three frames of six kinds, two of seven, three of five that open and close data transfers, data transfers that overflow, and frames whose end is overlooked or hidden with two frames behind them; cache of 9 | `PeekFindsFirst`, `HandledInOrder`, `RegularHandled`, `Resynchronises` |
| `serial_com` (351 thousand) | ring of 16, port of 2; two instructions; up to 4 bytes of noise, or a stray header or a dropped byte with at most one | `AllReturned`, `EventuallyReturned` while nothing is spoilt; `ReturnsWhatArrived`, `NeverStuck` always |
| `commander` (375 thousand) | a serial port and an infrared receiver, a list of 3 slots, three arrivals each | `InOrder`, `RepeatsLastKey`, `EventuallyExecuted` |
| `infrared` (106 thousand) | two signals of six codes of the four types, two distortions, silences of 60 and 120 ticks, a timer that wraps at 240 | `HeardWasSent`, `ClearIsHeard`, `ListensAgain` |
| `dhcp` (121 thousand) | up to two servers, of which one gives both options and the other one, two faults, a time limit of 18 ticks with 1 for an answer | `LeaseIsGranted`, `Perseveres`, `Returns` |
| `two_wire` (12 thousand) | three transfers; messages of 0 to 3 bytes, answers of 0 to 2, requests of 1 to 3, buffers of 2 | `WritesAreTold`, `ReadsAreServed`, `CallsReturn` |
| `station` (1.00 million) | a minute of 3 ticks, an hour of 9, a sync every 4 with answers a tick late, starts at 0 and at 4, two sockets, a server in any state that may change once, or a lost result | `RateKept`, `KeepsAsking`, `StatusIsOurs`, `Recovers` |

The properties, and what each could catch:

* `ImplementsDispatcher`: the host is the readme's state machine although the
  router calls `Execute` of the same host from inside `Execute`: the population is
  paused and goes on behind the service that populated, one service at most handles
  a command, and each result is offered once to each service.
* `OverrideLive`, `RoutingMatchesCalls`: nested routed commands and two routers.
  The pointer to the overriding stream never outlives the stream's call, and a router
  is never inside itself.
* `ParametersIntact`: every service sees the command as it was populated.
* `AnswersExactly`: the packets a command causes and the results it prints equal
  `Node!Answer`, a function of the command alone, computed apart from the context, the
  stack and the streams.  It has a command under two prefixes executed and answered,
  since the host of the run has two routers; the header of the router says otherwise
  (below).  `ResultDispatched`: a result gets to its generator.
* `ExecutedOnce`, `ReturnsToAsker`, `TrafficBounded`, `Answered`: what users of the
  network see.  Executions and results are counted against requests, so a relay that
  echoes, a result that is taken for a command, or a prefix with a wrong address or
  number shows.
* `HandledInOrder`, `RegularHandled`: compared with a reading of the whole input by
  the frame grammar (`FramesOf`), which knows no cache, no poll and no overflow.
  `Resynchronises`: after truncated transfers, overflows and hidden ends, of two frames
  the last is handled, and last.  The two must fit, hold no NUL and no keyword DATA; the
  first must not end in CR CR LF, whose end is overlooked while discarding; a NUL must
  lie a cache's length before them, since it hides the ends behind it until the cache
  overflows; and no frame may have DATA inside it, which could become an announcement when
  its beginning is lost (`Recoverable`).  One behaviour is excepted: the end of the first
  of the two falls into two polls while the rest of a frame is discarded (`SplitEnd`).
* `FrameEndSendsPacket`: where a frame ends its packet ends and is sent, so that the next
  frame does not share it.  It names the one way in which it can: the packet was cut
  between the CR and the LF, by the full cache or a flush of the owner.
* `AllReturned`, `EventuallyReturned`: the stream of two instructions, cut by polls
  at every byte and wrapped around the ring, is read back as it was sent.
  `ReturnsWhatArrived`: whatever was dropped or disturbed, no frame is put together
  from pieces and no byte is used twice.  `NeverStuck`: an update of a full ring
  always moves its tail.
* `InOrder`: each receiver's commands come out in the order of arrival, at most once.
  `RepeatsLastKey`: the id of a repeat signal, compared with a reading of the whole
  sequence of signals.
* `PeekFindsFirst`: the search agrees with a definition of the first occurrence.
* `HeardWasSent`: every code that becomes a command was sent, bit for bit, although
  the first width of a recording may be lost, a signal may be cut, and the buffer may
  be full.  `ClearIsHeard`: a signal between two gaps is heard, which needs that the
  widths that `send` makes and those that `decode` expects meet with the light's
  distortion in between.  `ListensAgain`: no recording leaves the receiver deaf.
* `LeaseIsGranted`: the address that is configured was granted, and is never mixed with the
  options of another server as far as its own server gives them, with one exception: other
  packets lay behind the acknowledgement when it was parsed, and were read as options.
  Options that the server leaves out may be left from any answer before.  `Perseveres`: a timeout means that there
  was no server, or several and a fault or one slower than another.  `Returns`: the call ends.
* `WritesAreTold`, `ReadsAreServed`: the results of the calls against the callbacks of
  the other board.  `CallsReturn`: no call spins for ever.
* `RateKept`, `KeepsAsking`: real time against the minute of a clock that wraps and is
  set.  In `KeepsAsking` time stops with the host (`MaxBusy`), so a call that hangs would not
  show in it.  `StatusIsOurs`: late answers.  `Recovers`: a server that refuses, is slow or
  is down when the run begins, or changes later, is used again once it is up, so neither
  a connection that was never made nor one that stays half open keeps the socket.  A server that
  closes before it answers is excluded (`Hasty`), because it does (below).

### Why the bounds are enough

* Four slots let the window of unread and read elements wrap in every position;
  `RingBufferProofs` removes the bound.
* A cache of four with a prefix of one sees every position of the frame end
  relative to the end of the cache, and holds two frames, so a frame that is not
  sent at its end shows, and so does a CR that fills the cache.  The clock's modulus is large enough for a wrap
  before, during and after an interval, and `MaxSince` lets half a period pass.
  `RedirectStreamProofs` removes these bounds.
* The messages of `MCHost` have one representative for each path through the
  services: local, unknown, help, results with and without number and data, routed
  to this node and another, nested twice and three times with the same and another
  destination, without parameters, a number beyond 16 bits, text beyond each buffer.
  The host forgets a command before the next (`InvalidateCommand`), so any sequence of
  messages is covered.  `HostProofs` removes the bound for five of the
  properties and for the refinement.
* Two requests in the network let one overtake the other on each of the four legs;
  node 7 does not exist.  One fault can hit every leg.
* Two instructions of a text or another parameter, the longest of which fills the ring,
  let the second wrap at different positions.  Four bytes of noise are the most that
  keep an update from seeing half a header: it takes six bytes to start one.
* A list of 3 slots holds two commands and refuses the third.
* Three frames let one be handled, one lost and one follow, in every order; the
  cache is shorter than some kinds of frame and no shorter than the others.  The bodies
  of the interrupted transfers end before, at and behind every boundary of the cache.
  The frames with an overlooked or hidden end have one of each cause (CR CR LF behind
  too long a frame, NUL at different places), before each kind of two frames to recover with.
* Two signals are the least that crowd, and the second meets the receiver in every state
  the first can leave it in.  The timer wraps within two silences; the widths, the tolerance, the
  gap and the buffer have the values of the code.
* Two servers are the least that disturb each other.  Eighteen ticks are what
  the attempts that two faults cost can take at most (`Patient` of `DhcpProofs`); with a
  limit of a few less `Perseveres` is false, as it should be.  With two options of which
  one server gives only one, an option can be its server's, another's, an older one or misread.
* Buffers of 2 bytes have messages and requests below, at and above their limit; three
  transfers let a read follow a write follow a read, and what one leaves behind be seen.
  `TwoWireProofs` removes the bounds.
* Three ticks a minute let every read of the clock fall on either side of its end, and two
  passes of the host with a late answer still be over within it (`Brisk`); an hour
  of three minutes wraps; two sockets let a connection be left half open.  The server
  begins in each of its states, so that each can be followed by "up" with one change.

### Fairness

`loop()` runs for ever and nothing blocks.  A host always has a step (`Run` begins
again), so its fairness is that steps go on: `[]<><<Next>>_vars`, which is
weak fairness of an action that is always enabled.  For the receiver, fairness
is of `Populate` only, and says that polling goes on unless it has nothing to do;
the sender may stop at any time.  The fairness is written out (`[]<>Idle \/ ...`)
in some modules because it is equal to weak fairness and much faster to evaluate:
with `WF_` these runs do not end in five minutes.  For the same reason the run `network`
checks `ExplicitSpec` of its MC module, where `Spec` has `WF_vars(Deliver)`.
For the serial line, `Arrive` is fair (the wire delivers) and so is
`GetFirstInstruction` (the sketch polls in `loop()`); sender and noise are not.  The
commander is called for ever and its call goes on, and no arrival is assumed.
In the network, packets are delivered or lost in the end; nobody has to ask.  The light
passes, the dark goes on and the main loop comes round, but none at any particular time.
The DHCP client runs and its clock with it, and no answer has to come: `Returns` needs
nothing of the network.  The TWI units and the interrupt handlers go on, and
a call that can return does.  The station's host, clock, chip, network and server
go on; the server need not come up, and `Recovers` says so in its premise.

Deadlock is checked in all runs but `network`, `network_readme`, `dhcp` and `two_wire`,
whose systems stop when the last request is answered, the lease is there, or the bounded
number of transfers is made.

## The proofs

All proofs are checked to the last leaf; they assume only the named assumptions
on the constants (`CapacityAssumption`, `CacheAssumption`, `ProtocolAssumption`,
`HostAssumption`, `DhcpAssumption`, `ReceiverAssumption`, `UploadAssumption`,
`ClockAssumption`, `StationAssumption`, `PrefixAssumption`, `TwoWireAssumption`,
`ParameterAssumption`, `WordAssumption`, `RoomAssumption`, `ByteAssumption`), and where
the program keeps a property only under a condition, the theorem has it as its
hypothesis: `Patient` of `Perseverance`, `Kept` of the two-wire theorems, the sync
interval of `Rate`, `Numbered` of `AnswersAlone` (no executor has the number of a result or
of a routed command), and `Brisk` of `NeverSilent` (an hour of three minutes or more, and
two passes of the host with the lateness of an answer within one).  In each case the run
satisfies it.

**Ring buffer, any capacity** (`RingBufferProofs`).  The inductive invariant is
`TypeOK` with `WindowFits`: typing alone does not bound `behind`, and a rewind by more
than the window would show overwritten elements.  The lemmas state how the
distances modulo the capacity change when an index moves by one.  `Refinement` maps
the slots from the tail to the head to the queue and shows that each step is a step
of `BoundedFifo` or a stutter.

**Redirecting stream, any cache, prefix, text and clock** (`RedirectStreamProofs`).
`PrefixAssumption` says that the prefix fits into the cache with room for a character and
holds no CR: the router makes it of the two addresses and the number.  `NothingLost`
compares texts, that is, it flattens the packets behind their prefixes.  What flattening
a list with one more element gives is derived first (`FlattenSeqAppend`), by taking a least
counterexample, which replaces the induction that is out of the prover's reach.  The
invariant says of the cache that it is empty, when the stream is new or was flushed, or
begins with the prefix and has no frame end but at its own end; and of the flag for a CR
that it is set exactly when the last character in the cache is one; from it follow where a frame may end (`FrameEndSendsPacket`) and that the cache
is not overrun.  That a packet cut behind its CR was full or flushed by the owner is kept
by itself (`CutsNamed`), since packets are only added.  `Paced` rests on the difference of two readings of a clock that wraps,
and on the real time since the last packet, which the reading cannot overstate.

**Host, any services and messages** (`HostProofs`).  The invariant is `TypeOK`,
`paraSize <= Len(para.data)` (without which `EndService` could set a size the
parameter does not have) and `CallsOK`, the chain of router calls: the
override is the router of the innermost call, each call remembers the next, and
`routing` holds for exactly those routers.  It is inductive because a call is pushed
only by a router whose flag is clear, and a return restores what the call
remembered.  `Typing`, `OverrideIsLive` and `RoutingFlag` follow.

For `ParametersIntact` the invariant also follows the command down the stack
(`CallsNest`, `CommandKept`): the records of nested calls hold what their callers will
restore, and each command on the stack is the one its call was made with, although all of
them parse one shared parameter.  `HostIsTheMachine` is the step refinement of
`Dispatcher`: initial states map to initial states, and every step at every depth of the
stack maps to a step of the machine or to none.  Only the outermost frame shows in the
machine; the steps in a nested call are stutters, because they leave the bottom of the
stack as it is, and the one that returns to it brings back what was there.

`AnswersAlone` states `AnswersExactly`: what a node has sent and printed when a command is
done is `Node!Answer` of the command, for any services, prefixes and results.  Its
invariant `AInv` has two parts.  `Linked` ties the call stack to the command that `Node`
reads off: the n-th nested `Execute` has the command below n prefixes that are all
addressed to this node, and the routers that called it are the first n of the list, one
after the other, since each was the first that was not routing.  `Course` says how much of
the answer is out at each point of a call: nothing while the services are asked in turn
(`Seeking`: none of those before could do anything with the command, and the overriding
stream is as new); a result in the context that is still to be dispatched (`Pending`); the
output of the generators up to the one whose turn it is (`Printing`); and all of it
afterwards (`Answered`), with an empty result buffer, so that the outer calls, which find
the command executed on their way back, add nothing.  Three facts carry the steps.
`TakenIs`: the number of prefixes that `Node` takes off is the depth of the call at
which the search ended.  `NothingFlushed` and `WriterAnswers`: what the host flushes before each service does
nothing to a stream that is as new, so the one writer below the router writes to the
stream on which `Node` computes the reply.  `PrintsSteps`: each generator prints once, in the
order of the list.  The functions that `Node` is made of are recursive; that they
satisfy their equations is shown through a least counterexample (`Recursion`).
`PrefixPerRouter` follows: what lies under one prefix more than there are routers is not
executed, relayed or answered.
`Numbered` is what `ERxCommandId.h:6-32` ensures, where each kind of service has a range of
numbers of its own.

**DHCP, any servers, timeouts and faults** (`DhcpProofs`).  `LeaseIsGranted` alone is
not inductive: it says nothing before the lease.  The invariant adds that every answer,
on the network and in the socket, is *honest* (`AllHonest`): an acknowledgment for this
client carries the address of the server that sent it, and that server has granted it.
The servers keep it (`HeardHonest`), since they grant when they answer; losing, delaying
and repeating keep it because grants are only added (`GrantsKeep`).  Then the address
that `Acknowledged` configures is that of the packet it reads, and the options which the
server gives are too, whatever other answers left in the client's variables before, except
those that the packets behind it overwrite.

`Perseverance` assumes `Patient`: an answer that is not held up is there within the
response timeout, and the time limit is at least what the faults can cost.  With the
code's 60 seconds and 4 seconds (`Dhcp.h:155`), that is four faults when an
answer takes up to a second, and two for the slowest network.  When one server runs the
invariant (`OnTime`) keeps a budget of ticks.  Either nothing went wrong in this attempt
(`Straight`): the one packet about is the answer that the client waits for.  Or packets of
earlier attempts are about or the answer is lost (`Detour`): then the client reads what
there is, which takes at most `Need(Packets)`, waits for one or two turns in vain, and
starts over on an empty network.  In every state, the ticks that went by with those that
are needed at most are within `Budget(faults)`, which each fault raises by `Cost`.  When
several servers run and nothing goes wrong, there are only three situations
(`Offering`, `Requesting`, `Acknowledging`).  The proof found the second condition of
`Perseveres`: servers of different speed defeat the client without any fault (below).

**Station, any number of sockets, faults and times** (`StationProofs`).  `StatusIsOurs`
depends on the source port, by which the chip tells the answers apart.  The invariant:
while the client holds a socket it is on the client's port (`SocketIsOurs`), a request
that is under way is of this upload exactly when it is from that port (`PortsTell`), and
a 200 in the buffer of that socket means that this upload is stored (`AnswerIsOurs`).
That the client takes the first free socket needs the least element of a set of sockets,
which well-founded induction gives (`Smallest`).

`Rate` is about real time and the minute of a clock that is set by others.  Its
hypothesis is that a sync comes a minute or more after the one before, as in the library
(300 seconds, `Time.cpp:30`); otherwise every `now()` may set the clock to another
minute, and each one lets an upload through.  The invariant (`RateAt`)
bounds how long ago the last requests were, by the ticks since the minute began, the ticks
since the last sync, and whether the present minute was asked for (`Settled`).  A sync
less than a minute ago moves the clock to another minute once, so that two requests are
from the minute before it, one from the stretch up to the end of its minute, and one from
the minute that runs.

`NeverSilent` (`KeepsAsking`) is the other side, and bounds how long ago the last request
was.  Its invariant (`AskInv`) says which readings the clock can still show: a window that
begins at the slowest one (`Window`, from `Slowest` on).  The service is in one of
four moods: the clock only moves by as much as answers are late (`Calm`), the provider may
still set it to any time (`Unset`), it has just done so (`Jumped`), or a request goes out in
this pass (`Asking`); each comes with the time that may still go by.  The bounds that the run checked before this proof were those of
a minute of two ticks: the proof failed for longer ones, and TLC then showed a
longer silence for a minute of three.  The property has the general bounds now.

**Two-wire bus, any messages, lengths and buffers** (`TwoWireProofs`).  The hypothesis
`Kept` says what the sketches do: the slave's reads all that it is given (`Leaves = 0`),
and the master's waits between its calls (`Patient`).  Without the one `WritesAreTold`
fails and without the other `ReadsAreServed` (below).  A transfer goes through phases
(`Opening`, `Refused`, `Writing`, `Reading` and what is between them), and the
invariant says of each where the bytes of the transfer are: in the master's buffer from an
index on, in the data register, in the slave's buffer, or with its sketch.

**Instruction frames, any bytes, noise, losses and ring** (`SerialComHelperProofs`).
`RoomAssumption` is the one of `ERxMacros.h:33-36`: a frame with the longest parameter
fits into the ring.  `Search` is a recursive function of the position, and each step looks
further behind.  That there is such a function (`FindsExists`) and that all that it finds
is *good* (`SearchGood`: the new tail lies in what was searched, and a frame found ends
there with all its bytes) is shown for the last position and, with a least
counterexample, for every one before it.  `SearchMoves` adds that a search in a longest
frame or more gets on.  `IndexMoves` shows that the unsigned subtraction, which wraps at
`Word`, leaves the right index modulo the capacity.  Then each step of the helper is a step
of the ring (`RingStep`), so that the ring's theorems hold of it as well (`RingBufferProofs`
is instantiated); the invariant only adds that what is on the line and in the port are
bytes.  `LoopReadsOn` and `FramesArrived` follow.

**Commander, any receivers, keys and capacities** (`CommanderProofs`).  For `InOrder` the
invariant numbers a command from its arrival on: what waits at a receiver is in order
(`Queued`) and newer than whatever was taken from it (`Taken`), so that the command
appended is the newest of its receiver, and what a full list refuses leaves a gap and no
disorder.  For `RepeatsLastKey` it says that the decoder holds at most the last signal and
that `m_LastCmd` is the meaning of the last signal that was taken (`Decoded`);
`MeaningNext` gives the meaning of a signal from that of the one before it, as the code does.

Only model-checked are

* `AllReturned` and the properties of the UART receiver (`UartProperties`): they say what
  recursive functions make of a whole history of bytes, with what noise and truncation
  may cost, and need an induction over that history on top of the invariant;
* infrared: `decode` is a recursive function of the widths of a whole signal;
* the network: its properties weigh the answers of several boards against histories of
  requests, in bags of messages, each an induction over those histories;
* liveness, with the last conjunct of `ImplementsDispatcher`, which is out of the prover's
  reach.

## Findings

1. In the network of the readme an end device that asks another one gets no result: its
   router has the relay disabled, and discards the command of its own service
   (`ERxMessageRouterService.cpp:100`, `src/readme.md:34,43`).  The run `network_readme`
   ends in the counterexample; `PROJECT.json` quotes the lines.

Observations, without a run of their own.  In the framework:

* The end of a frame is not recognised when its CR filled the cache of the redirecting
  stream: the flush clears the flag, and the LF leaves in one packet with the next frame,
  or is lost with the stream (`ERxRedirectOutputStream.cpp:100`).  So the stream cannot
  always "make sure a message frame is packed into a package"
  (`ERxRedirectOutputStream.h:10`), nor when a frame is longer than the cache.
  `FrameEndSendsPacket` names the case.
* The header of the router says that only one level of prefix is supported, and that a
  nested `MR_SEND_TO` is discarded and tagged executed, with no further execution
  (`ERxMessageRouterService.h:4`).  That holds of a host with one router, which all programs
  of the repository have.  `bIsRouting` belongs to a router, though, and in a host with
  several the next router takes the next prefix off: the nested command is executed and
  answered.  `Host` and `Node` do as the code does, the run `host` has two routers, and
  the theorem `PrefixPerRouter` says which prefix is the first that is discarded.
* The prefix of a reply is used after the lifetime of the array that holds it
  (`ERxMessageRouterService.cpp:74-95`, see "What is abstracted").
* `flush` waits for up to 25 days after 25 days without a flush, since the
  difference of two readings of the clock is signed
  (`ERxRedirectOutputStream.cpp:84`).  The model has this (`SignedDiff`, `waited`).
* After an overflow the search for the line end forgets a CR between two polls: when
  CR and LF fall into two polls, the next frame is discarded too
  (`ERxTextMessage.cpp:302`), each time again.  The search (`Stream::find`) also overlooks
  CR CR LF, since it does not compare again.  `Resynchronises` excepts the first
  (`SplitEnd`) and excludes the second (`Recoverable`).
* A NUL hides every line end behind it until the cache overflows
  (`ERxTextMessage.cpp:100-105`), and a frame that follows within the cache is lost.
* A data transfer truncated before its line end takes the next command as its
  parameter (`ERxUARTCmdReceiverService.cpp:43`).  The model has this (`Copy`).
* A stray header byte right before an instruction frame makes the parser overlook the
  frame (`ERxProtocol.cpp:271`), and the first byte of a frame is cleared when it is the
  last of the ring behind five bytes of noise or more (lines 268-277), which is why
  `serial_com` stops at four.
* A string as long as a parameter is sent without its NUL (`ERxProtocol.cpp:47`);
  `ReadString` then stops at the end of the parameter.
* A full commander's list drops the command just allocated, and nothing frees it
  (`ERxCommander.cpp:29`); the destructor, which no program runs, frees one command
  fewer than it holds (line 19).
* The id 0 means both "no command" and a signal of a foreign protocol
  (`ERxIRCommandRecv.cpp:19-61`).

Of infrared signals:

* An interrupt between the two stores of `resume()` (`IRremote.cpp:329-332`) loses the
  first width of a signal that begins just then, and with it the signal.
* The tick counter wraps after 3.3 seconds of darkness (line 264), and a signal that
  begins within a gap's time of the wrap is not recorded.
* The NEC code of 32 ones is taken for a repeat and ignored
  (`ERxIRCmdReceiverService.cpp:33`); two signals that crowd can decode to a code nobody
  sent.  `HeardWasSent` and `ClearIsHeard` name these cases.
* `1 << (codeLen - 1)` is 0 for a 20-bit RC6 code and a 16-bit int
  (`ERxIRControllerService.cpp:100`): the toggle bit is never sent.
* The receiver service enables the timer in its constructor, before `init()` of the
  core sets the timers up (`ERxIRCmdReceiverService.cpp:18`); sending disables the timer
  interrupt of a receiver on the same board.

Of the DHCP client:

* The server identifier is stored once and never reset (`Dhcp.cpp:289`).  With two
  servers and an answer that is held up, the client may ask for the address of one from
  the other, is refused or not answered, and goes on so until its time is over: this is
  why `Perseveres` excludes several servers with a fault.
* Nor does a fault have to happen: an offer of a slower server that comes after the client
  took the first and before the acknowledgment is parsed together with the
  packet behind it, of which no type is taken (lines 251-320, 47-71), so that with `Latency = 2` two servers can keep
  the client from a lease until its time is over.
* Options 0 and 255 do not end the loop over the options (lines 251-259), which goes on
  while the socket has bytes: the addresses, lengths and fields of a packet behind the
  first are read as options, and its own type is not looked for as such.  A server at
  10.0.0.1 is enough for its last byte to be read as the option 1, the network mask.
  `LeaseIsGranted` excepts this (`overran`).
* Gateway, mask and name server of an earlier answer stay when a later one has none.
* Answers that always take longer than `responseTimeout` never lead to a lease.

Of the Wire library:

* The slave's handler releases the bus before its receive callback and once more after it
  (`twi.c:411-417`).  A read that begins meanwhile loses its interrupt: with `Patient =
  FALSE`, `ReadsAreServed` fails.  The sketches of the repository wait before they read.
* Data that the sketch left unread make the library drop every message after it
  (`Wire.cpp:211-220`); with `Leaves = 1`, `WritesAreTold` fails.
  `receiveEvent` of `src/TestCases/I2CCommunication.cpp:72` reads all but the last byte, so
  that this sketch sees one message only; the model's sketch reads them all.
* `requestFrom(address, 0)` makes the length 255 (`twi.c:127`).

Of the weather station:

* The wrap of the hour costs an update, so up to two minutes and the time of a pass lie
  between two, and up to three and that of two passes and of a late answer when a provider
  sets the clock (`ERxPachubeService.cpp:75-81`); `KeepsAsking` has these bounds.  The
  minute that is compared and the one that is stored are read apart.
* `m_bIsFirstCommand` is not initialised; the model starts with either value.
* Every result of `TH_GET` is uploaded, also one that another board asked for, so the rate
  of uploads is not what the interval in `Populate` protects.
* A server that accepts and closes before it is asked anything leaves
  `EthernetClient::connect` waiting for a state that does not come
  (`EthernetClient.cpp:62-68`): with `Hasty = TRUE` the model deadlocks there.
* A late answer of the time provider sets the clock back, and a provider that fails is
  asked again by each `now()`.

## Plan

Done: the ring buffer, the redirecting stream, the host with router and system
service, the text message and the receiver with interrupted data transfers,
instruction frames and `SerialComHelper`, the commander; the network of nodes, infrared,
DHCP, the two-wire interface, and the Pachube service with its clock and client.

To come:

1. *Parameter streams* of instruction frames: numbers, and reading after writing.
2. *Several masters* on the two-wire bus.
3. `syncPachube`, which clears the data streams before it asks for new ones.

To prove, in this order: `ExecutedOnce` of the network,
relative to what `Node!Answer` sends; the text properties of the receiver.

## Not modelled

* Motors: a command sets the levels of pins at once, and no state outlives it.  The
  enable pin of the L298N is written before the direction (`ERxL298N/ERxL298N.cpp:11-21`),
  which matters for microseconds only.
* Sensors: microseconds of a pin and arithmetic on floats, out of TLC's reach.
* The text of HTTP requests and answers, and the data streams they carry.
* The vendored libraries that the services do not use (`AccelStepper`, `WebServer`,
  `Servo`, the USB core, `WString`, ...), which are the larger part of the lines of this
  repository, and the ones below what is modelled (the pins of SPI and of the Ethernet
  chip).
* Sketches are configurations; those of the readme, of the I2C test and of the weather
  station gave the instances.
