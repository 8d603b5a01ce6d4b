-------------------------------- MODULE MCPoller --------------------------------
(* A small instance of Poller for TLC, whose intervals have room for two   *)
(* passes of the loop.                                                     *)
EXTENDS Poller

CONSTANTS p1, p2

MCInterval == [p \in Polled |-> IF p = p2 THEN 5 ELSE 4]

===============================================================================
