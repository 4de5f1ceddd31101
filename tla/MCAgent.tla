------------------------------ MODULE MCAgent ------------------------------
(***************************************************************************)
(* Agent with the numbers that MCAgent*.cfg give to MaxStarts.             *)
(***************************************************************************)
EXTENDS Agent
=============================================================================
