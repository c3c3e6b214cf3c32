------------------------------ MODULE Dispatcher -----------------------------
(***************************************************************************)
(* What readme.md ("Framework") promises of a host: a state machine of     *)
(* three states.  In population it goes through the services; a populated  *)
(* command pauses it.  In execution the command is offered to the services *)
(* in order until one handles it.  In dispatch the result is given to      *)
(* every service once.  Then population goes on where it was paused.       *)
(***************************************************************************)
EXTENDS Naturals

CONSTANT N   \* the number of services

VARIABLES
  phase,     \* the state of the machine
  cursor,    \* the service to populate next
  turn       \* the service the command or the result is offered to next

vars == <<phase, cursor, turn>>

Init == phase = "idle" /\ cursor = 0 /\ turn = 0

Start ==
  /\ phase = "idle"
  /\ phase' = "population" /\ cursor' = 1 /\ turn' = 0

Skip ==
  /\ phase = "population" /\ cursor <= N
  /\ cursor' = cursor + 1 /\ UNCHANGED <<phase, turn>>

Pause ==
  /\ phase = "population" /\ cursor <= N
  /\ phase' = "execution" /\ turn' = 1 /\ UNCHANGED cursor

Offer ==
  /\ phase \in {"execution", "dispatch"} /\ turn <= N
  /\ turn' = turn + 1 /\ UNCHANGED <<phase, cursor>>

Handle ==
  /\ phase = "execution" /\ turn <= N
  /\ phase' = "handled" /\ UNCHANGED <<cursor, turn>>

Dispatch ==
  /\ phase = "handled"
  /\ phase' = "dispatch" /\ turn' = 1 /\ UNCHANGED cursor

Resume ==
  /\ \/ phase = "handled"
     \/ phase \in {"execution", "dispatch"} /\ turn > N
  /\ phase' = "population" /\ cursor' = cursor + 1 /\ turn' = 0

Finish ==
  /\ phase = "population" /\ cursor > N
  /\ phase' = "idle" /\ cursor' = 0 /\ UNCHANGED turn

Next ==
  \/ Start \/ Skip \/ Pause \/ Offer \/ Handle \/ Dispatch \/ Resume \/ Finish

\* Some step is possible in every state, so that going on for ever is what
\* weak fairness amounts to.
Spec == Init /\ [][Next]_vars /\ []<><<Next>>_vars
=============================================================================
