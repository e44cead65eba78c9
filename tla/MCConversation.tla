--------------------------- MODULE MCConversation ---------------------------
(* Three turns at a time; a conversation of a few exchanges kept instead of   *)
(* twelve, in the proportions of the code.                                  *)
EXTENDS Conversation, TLC

CONSTANTS w1, w2, w3

Symmetry == Permutations(Workers)
=============================================================================
