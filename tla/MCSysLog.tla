------------------------------ MODULE MCSysLog ------------------------------
(***************************************************************************)
(* SysLog with the bounds that MCSysLog*.cfg give.                         *)
(***************************************************************************)
EXTENDS SysLog
=============================================================================
