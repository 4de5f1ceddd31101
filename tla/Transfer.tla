------------------------------ MODULE Transfer ------------------------------
(***************************************************************************)
(* What a file transfer promises, without connections or messages: the     *)
(* sender offers blocks and says when there are no more, the receiver      *)
(* has the first of them, and whoever takes the copy for the whole file    *)
(* has the whole file.  A transfer may stop anywhere.                      *)
(***************************************************************************)
EXTENDS Naturals, Sequences

VARIABLES
    source, ended,     (* the blocks offered so far; there are no more      *)
    copy, published,   (* what the receiver has; it takes it for the file   *)
    verdict            (* what the sender is told                           *)

vars == <<source, ended, copy, published, verdict>>

Init ==
    /\ source = <<>> /\ ended = FALSE
    /\ copy = <<>> /\ published = FALSE
    /\ verdict = "none"

Offer ==
    /\ ~ended
    /\ source' \in {source, Append(source, Len(source) + 1)}
    /\ ended' \in BOOLEAN
    /\ UNCHANGED <<copy, published, verdict>>

Deliver ==
    /\ \E n \in Len(copy)..Len(source) : copy' = SubSeq(source, 1, n)
    /\ published' \in {published, ended /\ copy' = source}
    /\ published => published'
    /\ UNCHANGED <<source, ended, verdict>>

Report ==
    /\ verdict = "none"
    /\ verdict' = "error" \/ (verdict' = "ok" /\ published)
    /\ UNCHANGED <<source, ended, copy, published>>

Next == Offer \/ Deliver \/ Report

Spec == Init /\ [][Next]_vars
=============================================================================
