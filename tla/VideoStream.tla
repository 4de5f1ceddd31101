---------------------------- MODULE VideoStream ----------------------------
(***************************************************************************)
(* What a display stream promises the decoder at its end: it starts with a *)
(* keyframe, only a keyframe changes the size (agent.proto, DisplayFrame), *)
(* and, as long as the pictures come in order to it, no half of the        *)
(* picture goes back to an older one.                                      *)
(***************************************************************************)
EXTENDS Naturals

CONSTANTS Streams,
          NotYet    (* before a stream's first frame *)

VARIABLES last,     (* the frame that each stream sent last *)
          ordered   (* whether pictures come in order       *)

Init == last = [s \in Streams |-> NotYet]

Continues(old, new) ==
    /\ ordered => new.top >= old.top /\ new.bottom >= old.bottom
    /\ new.key \/ new.size = old.size

Send(s) ==
    /\ \A t \in Streams \ {s} : last'[t] = last[t]
    /\ last'[s] # NotYet
    /\ IF last[s] = NotYet THEN last'[s].key ELSE Continues(last[s], last'[s])

Next == \E s \in Streams : Send(s)

Spec == Init /\ [][Next]_last
=============================================================================
