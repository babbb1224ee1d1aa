----------------------------- MODULE MCServers -----------------------------
EXTENDS Servers, TLC

CONSTANTS o, r1, r2, r3

(* A moderator who may manage roles but not members or invitations can try *)
(* to pass on more than that.                                              *)
TwoBitSets == {{"ManageRole"}, {"ManageRole", "ManageMember", "CreateInvite"}}
NoBits == {}

Symmetry ==
    Permutations(Users \ {Owner}) \cup Permutations(Roles \ {DefaultRole})
    \cup Permutations(Handlers) \cup Permutations(Invites)
=============================================================================
