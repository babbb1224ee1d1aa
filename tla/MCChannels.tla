----------------------------- MODULE MCChannels -----------------------------
EXTENDS Channels, TLC

CONSTANTS o, b, everyone, moderator

(* b may manage channels and members besides what every member may.        *)
TwoRoles == (o :> {everyone}) @@ (b :> {everyone, moderator})
RoleBits == (everyone :> DefaultMemberBits) @@ (moderator :> {"ManageChannel", "ManageMember"})

Rule(target, allow, deny) == [target |-> target, allow |-> allow, deny |-> deny]

(* A private channel, one that lets b in, one in which roles disagree.     *)
Rules1 == {Rule(everyone, {}, {"ViewChannel"})}
Rules2 == {Rule(everyone, {}, {"ViewChannel"}), Rule(b, {"ViewChannel", "SendMessage"}, {})}
Rules3 == {Rule(everyone, {"ManageMessage"}, {}), Rule(moderator, {"SpeakVoice"}, {"ManageMessage"}),
           Rule(b, {"SpeakVoice"}, {"SpeakVoice"})}
(* Refused: two rows for one member.                                       *)
Rules4 == {Rule(b, {"ViewChannel"}, {}), Rule(b, {}, {"ViewChannel"})}
ManyRules == {{}, Rules1, Rules2, Rules3, Rules4}

Symmetry == Permutations(Handlers)
=============================================================================
