------------------------------ MODULE MCLifecycle ------------------------------
(* Lifecycle with two requests at a time, one bridge and a few ids.    *)
EXTENDS Lifecycle

MCSymmetry == Permutations(Handlers)
================================================================================
