------------------------ MODULE MCConversationContext ------------------------
(* Small instances of ConversationContext. *)
EXTENDS ConversationContext, TLC

Symmetry == Permutations(Requests)

=============================================================================
