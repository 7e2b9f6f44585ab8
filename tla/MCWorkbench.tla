----------------------------- MODULE MCWorkbench -----------------------------
EXTENDS Workbench, TLC

(* Conversations and messages are interchangeable. *)
Symmetry == Permutations(Conversation) \cup Permutations(Message)
=============================================================================
