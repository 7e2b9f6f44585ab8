------------------------ MODULE MCConversationStorage ------------------------
EXTENDS ConversationStorage, TLC

(* Conversations and requests are interchangeable. *)
Symmetry == Permutations(Conversation) \cup Permutations(Request)
=============================================================================
