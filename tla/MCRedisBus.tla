-------------------------------- MODULE MCRedisBus -------------------------------
(* A small instance of RedisBus for TLC.                                    *)
EXTENDS RedisBus

===============================================================================
