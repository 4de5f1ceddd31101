------------------------------ MODULE MCShell ------------------------------
(***************************************************************************)
(* Shell with the bounds that MCShell.cfg gives.                           *)
(***************************************************************************)
EXTENDS Shell
=============================================================================
