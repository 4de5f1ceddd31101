----------------------------- MODULE MCDownload ----------------------------
(***************************************************************************)
(* Download with the processes, versions and blocks of MCDownload.cfg.     *)
(***************************************************************************)
EXTENDS Download, TLC

Symmetry == Permutations(Processes) \cup Permutations(Versions)
=============================================================================
