----------------------------- MODULE MCDisplay -----------------------------
(***************************************************************************)
(* Display with the bounds that MCDisplay.cfg gives.                       *)
(***************************************************************************)
EXTENDS Display

SomeSizes == {<<2, 2>>, <<64, 64>>, <<3, 2>>, <<7682, 4326>>}
=============================================================================
