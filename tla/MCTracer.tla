------------------------------ MODULE MCTracer -----------------------------
(***************************************************************************)
(* Tracer with the processes that MCTracer.cfg gives.                      *)
(***************************************************************************)
EXTENDS Tracer
=============================================================================
