------------------------------ MODULE MCNetwork ------------------------------
(* A coordinator that asks a board for what it measures, a terminal that     *)
(* asks the same board, and a board with another reading.  Nobody is node 7. *)
EXTENDS Network

TH_GET == 64
Board(relay, own) == <<SystemService, UartService, RouterService(relay)>> \o own

MCServicesOf ==
  (1 :> Board(TRUE, <<GeneratorService(TH_GET, <<>>)>>)
   @@ 2 :> Board(FALSE, <<ExecutorService(TH_GET, <<25, TXT, CR, LF>>)>>)
   @@ 3 :> Board(FALSE, <<ExecutorService(TH_GET, <<30, CR, LF>>)>>))

\* Everything goes through the coordinator.
Star(center, others) == ({center} \X others) \union (others \X {center})
MCHears == Star(1, {2, 3, 9})

Ask(from, to, id) == [from |-> from, to |-> to, id |-> id]
MCAsks == {Ask(1, 2, TH_GET), Ask(9, 2, TH_GET), Ask(9, 7, TH_GET)}

\* The network of the readme: board 2 asks board 3, and only the coordinator
\* relays.
ReadmeServicesOf ==
  (1 :> Board(TRUE, <<>>)
   @@ 2 :> Board(FALSE, <<GeneratorService(TH_GET, <<>>)>>)
   @@ 3 :> Board(FALSE, <<ExecutorService(TH_GET, <<30, CR, LF>>)>>))

ReadmeHears == Star(1, {2, 3})
ReadmeAsks == {Ask(2, 3, TH_GET)}
-----------------------------------------------------------------------------

\* Spec with the fairness written out: Deliver is enabled exactly while a packet
\* is under way, which is much faster to evaluate than ENABLED.
ExplicitSpec ==
  Init /\ [][Next]_vars /\ ([]<>(air = EmptyBag) \/ []<><<Deliver>>_vars)
=============================================================================
