---------------------------- MODULE Permissions ----------------------------
EXTENDS Naturals

(***************************************************************************)
(* The decisions of core/permissions/permissions.service.ts as operators.  *)
(* A bitset is the set of its bits; a context is what loadServerContext    *)
(* returns of one user and one server:                                     *)
(*   [owner, status, bits, roles, rank]                                    *)
(* where "bits" is the union (BIT_OR) of the bits of the roles held and     *)
(* "rank" the set of their priorities.                                     *)
(***************************************************************************)

Bits == {"ViewChannel", "SendMessage", "ManageMessage", "ManageChannel", "JoinVoice",
         "ManageMember", "ManageRole", "CreateInvite", "ViewAudit", "SpeakVoice",
         "ListenVoice"}

DefaultMemberBits == {"ViewChannel", "SendMessage", "JoinVoice", "SpeakVoice", "ListenVoice"}

Here(status) == status \in {"active", "muted"}

RequiredServerBits(action) ==
    {action} \cap {"ManageChannel", "ManageMember", "ManageMessage", "ManageRole",
                   "CreateInvite", "ViewAudit"}

(* The actions that read a channel, and those that need more than to see   *)
(* it; whatever is not listed needs no bit at all.                         *)
RequiredChannelBits(action) ==
    CASE action \in {"AccessAttachment", "SubscribeRealtime", "ViewChannel"} -> {"ViewChannel"}
      [] action \in {"SendMessage", "JoinVoice"} -> {"ViewChannel", action}
      [] action \in {"SpeakVoice", "ListenVoice"} -> {"ViewChannel", "JoinVoice", action}
      [] action \in {"ManageChannel", "ManageMessage"} -> {action}
      [] OTHER -> {}

(* evaluateServerAction. Its test for a muted sender is never reached:     *)
(* SendMessage requires no bit of the server.                              *)
AllowedOnServer(context, action) ==
    \/ context.owner
    \/ /\ Here(context.status)
       /\ RequiredServerBits(action) \subseteq context.bits

(* Faulty variant: what a role allows outweighs what another one denies.   *)
AllowanceFirstBits(context, member, overwrites) ==
    LET mine == context.roles \cap DOMAIN overwrites
        denied == UNION {overwrites[r].deny : r \in mine}
        allowed == UNION {overwrites[r].allow : r \in mine}
        byRoles == (context.bits \ denied) \cup allowed
        byMember == IF member \in DOMAIN overwrites
                    THEN (byRoles \cup overwrites[member].allow) \ overwrites[member].deny
                    ELSE byRoles
    IN  IF context.status = "muted" THEN byMember \ {"SendMessage"} ELSE byMember

(* computeChannelPermissionBits: overwrites maps some of the roles and     *)
(* members of the server to [allow, deny].                                 *)
ChannelBits(context, member, overwrites) ==
    LET mine == context.roles \cap DOMAIN overwrites
        denied == UNION {overwrites[r].deny : r \in mine}
        allowed == UNION {overwrites[r].allow : r \in mine}
        byRoles == (context.bits \ denied) \cup (allowed \ denied)
        byMember == IF member \in DOMAIN overwrites
                    THEN (byRoles \cup overwrites[member].allow) \ overwrites[member].deny
                    ELSE byRoles
    IN  IF context.status = "muted" THEN byMember \ {"SendMessage"} ELSE byMember

(* checkChannelPermission; channel is [status, type].                      *)
AllowedOnChannel(context, member, channel, overwrites, action) ==
    /\ channel.status = "active"
    /\ action = "SendMessage" => channel.type = "text"
    /\ action = "JoinVoice" => channel.type = "voice"
    /\ \/ context.owner
       \/ /\ Here(context.status)
          /\ RequiredChannelBits(action) \subseteq ChannelBits(context, member, overwrites)

-----------------------------------------------------------------------------
(* The hierarchy. A rank is the set of the priorities of the roles held:   *)
(* highestPriority, its maximum or 0, is above n exactly when one of them  *)
(* is.                                                                     *)
Outranks(owner, rank, n) == owner \/ \E p \in rank : p > n

(* assertActorCanTargetMember *)
MayTargetMember(actor, target) ==
    /\ ~target.owner
    /\ \/ actor.owner
       \/ \E p \in actor.rank : \A q \in target.rank \cup {0} : p > q

(* assertCanMutateRole of a role that exists, is written, or both: the     *)
(* priorities and the bits concerned.                                      *)
MayMutateRole(actor, priorities, bits) ==
    \/ actor.owner
    \/ /\ \A n \in priorities : Outranks(FALSE, actor.rank, n)
       /\ bits \subseteq actor.bits
=============================================================================
