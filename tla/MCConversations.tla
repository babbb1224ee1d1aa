-------------------------- MODULE MCConversations --------------------------
EXTENDS Conversations, TLC

Symmetry ==
    UNION {Permutations(Friendships), Permutations(Attachments),
           Permutations(Messages), Permutations(Handlers)}
=============================================================================
