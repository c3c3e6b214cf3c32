--------------------------------- MODULE Clock ---------------------------------
(***************************************************************************)
(* The Time library: a clock that counts what millis() counts, whenever it *)
(* is read, and that an external provider may set.                         *)
(*                                                                         *)
(* A tick stands for the seconds of a fraction of a minute.  Nobody in the *)
(* repository's services asks for more than the minute, so the time counts *)
(* modulo an hour, and nextSyncTime counts down to 0, where a sync is due. *)
(***************************************************************************)
EXTENDS Naturals

CONSTANTS
  SECS_PER_MIN, SECS_PER_HOUR,   \* in ticks
  SyncInterval,
  MaxLate,                       \* how old the answer of the provider may be
  StartTimes                     \* the times of day at which the board may start

ASSUME ClockAssumption ==
  /\ {SECS_PER_MIN, SECS_PER_HOUR, SyncInterval} \subseteq Nat \ {0}
  /\ MaxLate \in 0 .. SECS_PER_HOUR
  /\ SECS_PER_HOUR % SECS_PER_MIN = 0
  /\ StartTimes \subseteq 0 .. SECS_PER_HOUR - 1

VARIABLES
  sysTime,
  ahead,        \* the ticks of millis() since prevMillis
  untilSync,    \* nextSyncTime - sysTime, 0 when it is past
  getTimePtr,   \* whether setSyncProvider was called
  time          \* the time of day the provider knows

timeVars == <<sysTime, ahead, untilSync, getTimePtr, time>>

Times == 0 .. SECS_PER_HOUR - 1

Minute(t) == t \div SECS_PER_MIN

ClockInit ==
  /\ sysTime = 0 /\ ahead = 0 /\ untilSync = 0
  /\ getTimePtr \in BOOLEAN
  /\ time \in StartTimes

CaughtUp == (sysTime + ahead) % SECS_PER_HOUR

Left == IF ahead < untilSync THEN untilSync - ahead ELSE 0

\* setTime(t), with what the provider answered: the time, now or a while ago.
Synced(t) ==
  /\ getTimePtr /\ Left = 0
  /\ \E late \in 0 .. MaxLate : t = (time + SECS_PER_HOUR - late) % SECS_PER_HOUR
  /\ untilSync' = SyncInterval

\* No sync is due, there is no provider, or it fails: the next call asks it again.
Unsynced(t) ==
  /\ t = CaughtUp
  /\ untilSync' = Left

\* now() returns t.
Now(t) ==
  /\ Synced(t) \/ Unsynced(t)
  /\ sysTime' = t
  /\ ahead' = 0
  /\ UNCHANGED <<getTimePtr, time>>

Tick ==
  /\ ahead' = ahead + 1
  /\ time' = (time + 1) % SECS_PER_HOUR
  /\ UNCHANGED <<sysTime, untilSync, getTimePtr>>
=============================================================================
