----------------------------- MODULE MCStreams -----------------------------
(* Streams for TLC.  The order streams and the prices share no variable but *)
(* the counters of the bounds, so each is run without the other: users and  *)
(* no price runtime, or a price runtime and no users.                       *)
EXTENDS Streams

MCInit ==
    /\ Init
    /\ \/ cycle.pc = "off" /\ held = {} /\ reloads = 0
       \/ /\ cycle.pc = "start"
          /\ accounts = [u \in Users |-> 0]
          /\ reloads = MaxReloads

MCSpec == MCInit /\ [][Next]_vars /\ Fairness
=============================================================================
