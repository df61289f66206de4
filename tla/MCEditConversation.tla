-------------------------- MODULE MCEditConversation --------------------------
EXTENDS EditConversation, TLC

Symmetry == Permutations(Admins)
=============================================================================
