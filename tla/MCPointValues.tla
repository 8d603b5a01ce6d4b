------------------------------ MODULE MCPointValues ------------------------------
(* A small instance of PointValues for TLC: one client filters nothing.     *)
EXTENDS PointValues

MCWants == [c \in Clients |-> {}]

===============================================================================
