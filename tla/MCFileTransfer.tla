--------------------------- MODULE MCFileTransfer ---------------------------
(***************************************************************************)
(* FileTransfer with the bounds that MCFileTransfer.cfg gives.             *)
(***************************************************************************)
EXTENDS FileTransfer
=============================================================================
