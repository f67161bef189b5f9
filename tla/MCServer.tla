-------------------------------- MODULE MCServer --------------------------------
(* Server for TLC: the clients are interchangeable, and no run of this module *)
(* checks a liveness property, for which that would not be sound.             *)
EXTENDS Server, TLC

ClientSymmetry == Permutations(Clients)
================================================================================
