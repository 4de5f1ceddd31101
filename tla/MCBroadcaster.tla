--------------------------- MODULE MCBroadcaster ---------------------------
(***************************************************************************)
(* Broadcaster on a small instance, and plausible bugs of broadcast.go.    *)
(***************************************************************************)
EXTENDS Broadcaster
=============================================================================
