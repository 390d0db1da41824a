--------------------------- MODULE MCConversation ---------------------------
(* Small instances of Conversation for TLC: the requests are interchangeable. *)
EXTENDS Conversation, TLC

Symmetry == Permutations(Request)
=============================================================================
