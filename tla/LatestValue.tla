---------------------------- MODULE LatestValue ----------------------------
(***************************************************************************)
(* What a broadcaster promises its users, without mutex or condition       *)
(* variable: a register holding the latest published value.  A reader that *)
(* has not seen the latest version may be handed it, at most once, and     *)
(* never an older one.  Once the register is shut, a reader may instead be *)
(* told so.  agent/util/broadcaster/broadcast.go implements this.          *)
(***************************************************************************)
EXTENDS Naturals

CONSTANTS Readers,   (* the users of the register                     *)
          Values,    (* what may be published                         *)
          NoValue    (* the zero value of the register's element type *)

VARIABLES version,   (* number of values published so far             *)
          latest,    (* the value published last                      *)
          shut,      (* no more deliveries are promised               *)
          seen,      (* version last handed to each reader            *)
          got,       (* value last handed to each reader              *)
          ended      (* readers that were told the register is shut   *)

vars == <<version, latest, shut, seen, got, ended>>

Init ==
    /\ version = 0
    /\ latest = NoValue
    /\ shut = FALSE
    /\ seen = [r \in Readers |-> 0]
    /\ got = [r \in Readers |-> NoValue]
    /\ ended = [r \in Readers |-> FALSE]

Publish(v) ==
    /\ version' = version + 1
    /\ latest' = v
    /\ UNCHANGED <<seen, got>>
    /\ shut' = shut /\ ended' = ended

Shut ==
    /\ shut' = TRUE
    /\ UNCHANGED <<version, latest, seen, got, ended>>

Deliver(r) ==
    /\ ~ended[r]
    /\ seen[r] < version
    /\ seen' = [seen EXCEPT ![r] = version]
    /\ got' = [got EXCEPT ![r] = latest]
    /\ UNCHANGED <<version, latest>>
    /\ shut' = shut /\ ended' = ended

End(r) ==
    /\ shut
    /\ ended' = [ended EXCEPT ![r] = TRUE]
    /\ UNCHANGED <<version, latest, shut, seen, got>>

Next ==
    \/ \E v \in Values : Publish(v)
    \/ Shut
    \/ \E r \in Readers : Deliver(r) \/ End(r)

Spec == Init /\ [][Next]_vars
=============================================================================
