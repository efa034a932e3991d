--------------------------- MODULE MCConversation ---------------------------
(* Instances of Conversation for TLC.                                      *)
EXTENDS Conversation, TLC

Symmetry == Permutations(Workers) \cup Permutations(Sessions) \cup Permutations(Mutexes)
=============================================================================
