------------------------------ MODULE MCCommandPath ------------------------------
(* CommandPath with as many requests as it takes to race, retry and evict.     *)
EXTENDS CommandPath, TLC

MCSymmetry == Permutations(Requests) \cup Permutations(Keys)
================================================================================
