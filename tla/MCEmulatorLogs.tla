--------------------------- MODULE MCEmulatorLogs ---------------------------
(***************************************************************************)
(* EmulatorLogs with the bounds that MCEmulatorLogs.cfg gives.             *)
(***************************************************************************)
EXTENDS EmulatorLogs
=============================================================================
