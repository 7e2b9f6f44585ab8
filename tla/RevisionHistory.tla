--------------------------- MODULE RevisionHistory ---------------------------
(***************************************************************************)
(* What publication promises a conversation: an append-only history of     *)
(* immutable revisions, numbered in the order they were published, whose   *)
(* last entry is the current one.                                          *)
(***************************************************************************)
EXTENDS Sequences

CONSTANTS Revision, None

VARIABLES history, current

vars == <<history, current>>

Init == history = <<>> /\ current = None

Publish(r) ==
    /\ \A n \in DOMAIN history : history[n] # r
    /\ history' = Append(history, r)
    /\ current' = r

Next == \E r \in Revision : Publish(r)

Spec == Init /\ [][Next]_vars
=============================================================================
