------------------------------ MODULE Servers ------------------------------
(***************************************************************************)
(* The members, roles and invitations of one server, as ServersService and *)
(* ServersRepository keep them in PostgreSQL.  A membership is named by    *)
(* its user (server_id, user_id is unique and a row is never deleted).     *)
(*                                                                         *)
(* A request is a job.  What it reads before its transaction it keeps, and *)
(* acts upon later; within the transaction a job holds the rows it locked  *)
(* or rewrote, so that other jobs wait for them, and what it wrote becomes *)
(* visible when it commits, in its last step.  A request that is refused   *)
(* changes nothing and ends.                                               *)
(***************************************************************************)
EXTENDS Permissions, FiniteSets

CONSTANTS
    Users, Owner,        \* who may be a member, and the one who creates the server
    Roles, DefaultRole,  \* the ids of roles, none of them ever used again
    Invites,             \* the ids of invitations
    DefaultBits,         \* what every member may do
    BitSets, Priorities, \* what a request may ask for a role
    Handlers,            \* requests under way at the same time
    MaxRequests,         \* bound: requests in a behaviour
    None                 \* nothing

ASSUME ConstantsAssumption ==
    /\ Owner \in Users
    /\ DefaultRole \in Roles
    /\ BitSets \subseteq SUBSET Bits
    /\ DefaultBits \subseteq Bits
    /\ Priorities \subseteq Nat
    /\ MaxRequests \in Nat
    /\ None \notin Users \cup Roles \cup Invites
    /\ None \notin BitSets
    /\ None \notin Priorities

VARIABLES
    created,   \* the transaction of createServer has committed
    member,    \* memberships.member_status, "none" without a row
    holds,     \* membership_roles
    role,      \* roles: [status, bits, priority]
    invite,    \* invitations.status
    job,       \* what every handler is doing
    requests,  \* requests begun
    granted,   \* ghost: bits the default role began with or the owner ever wrote
    given,     \* ghost: priorities the default role began with or the owner ever wrote
    delegated, \* ghost: roles written last by somebody who is not the owner
    admitted   \* ghost: how often an invitation has admitted somebody

tables == <<created, member, holds, role, invite>>
ghosts == <<granted, given, delegated, admitted>>
vars == <<tables, job, requests, ghosts>>

Idle == [pc |-> "idle", op |-> None, actor |-> None, user |-> None, id |-> None,
         bits |-> {}, priority |-> 0, context |-> None, rows |-> {}]

-----------------------------------------------------------------------------
(* Queries.                                                                *)

(* loadServerContext *)
Context(u) ==
    [owner |-> u = Owner, status |-> member[u], roles |-> holds[u],
     bits |-> UNION {role[r].bits : r \in holds[u]},
     rank |-> {role[r].priority : r \in holds[u]}]

(* getMemberHierarchy: any membership will do, whatever its status.        *)
Target(u) == [owner |-> u = Owner, rank |-> {role[r].priority : r \in holds[u]}]

HasMembership(u) == member[u] # "none"

(* getRoleHierarchy *)
RoleExists(r) == role[r].status = "live"

(* Faulty variant: the invitation is read without FOR UPDATE.              *)
NeverLocked(i) == FALSE

(* getInvitationForUpdate: the row stays locked until the job ends.        *)
InvitationLocked(i) == \E h \in Handlers : job[h].pc \in {"member", "admit"} /\ job[h].id = i

(* getMembershipForUpdate, getServerMembershipForUpdate *)
MembershipLocked(u) ==
    \E h \in Handlers :
        /\ job[h].user = u
        /\ \/ job[h].pc = "left"
           \/ job[h].pc = "admit" /\ job[h].op = "removed"

(* The rows of membership_roles a transaction has inserted or deleted.     *)
Rewritten(h, u) == UNION {job[g].rows : g \in {g \in Handlers \ {h} : job[g].user = u}}

(* A new request takes an idle handler.                                    *)
Begin(h) ==
    /\ created
    /\ requests < MaxRequests
    /\ job[h].pc = "idle"
    /\ requests' = requests + 1

End(h) == job' = [job EXCEPT ![h] = Idle]

Unless(h, condition, next) ==
    job' = [job EXCEPT ![h] = IF condition THEN next ELSE Idle]

-----------------------------------------------------------------------------
(* insertRole, updateRoleRow *)
NewRole(bits, priority) == [status |-> "live", bits |-> bits, priority |-> priority]

(* insertMembershipRoleIgnoreConflict *)
WithDefaultRole(roles) == roles \cup {DefaultRole}

Init ==
    /\ created = FALSE
    /\ member = [u \in Users |-> "none"]
    /\ holds = [u \in Users |-> {}]
    /\ role = [r \in Roles |-> [status |-> "unused", bits |-> {}, priority |-> 0]]
    /\ invite = [i \in Invites |-> "unused"]
    /\ job = [h \in Handlers |-> Idle]
    /\ requests = 0
    /\ granted = DefaultBits
    /\ given = {0}
    /\ delegated = {}
    /\ admitted = [i \in Invites |-> 0]

InsertOwnerMembership == member' = [member EXCEPT ![Owner] = "active"]

InsertDefaultRole == role' = [role EXCEPT ![DefaultRole] = NewRole(DefaultBits, 0)]

InsertInvitation(i) ==
    /\ invite[i] = "unused"
    /\ invite' = [invite EXCEPT ![i] = "active"]

(* createServer: one transaction, which nobody can see before it commits.  *)
CreateServer ==
    /\ ~created
    /\ created' = TRUE
    /\ InsertOwnerMembership
    /\ InsertDefaultRole
    /\ holds' = [holds EXCEPT ![Owner] = WithDefaultRole(@)]
    /\ \E i \in Invites : InsertInvitation(i)
    /\ UNCHANGED <<job, requests, ghosts>>

-----------------------------------------------------------------------------
(* joinServer. No request creates an invitation that expires or has a      *)
(* limit, so neither test can refuse.                                      *)
StartJoin(h, u, i) ==
    /\ Begin(h)
    /\ ~InvitationLocked(i)
    /\ Unless(h, invite[i] = "active", [Idle EXCEPT !.pc = "member", !.user = u, !.id = i])
    /\ UNCHANGED <<tables, ghosts>>

LockMember(h) ==
    LET u == job[h].user
    IN  /\ job[h].pc = "member"
        /\ ~MembershipLocked(u)
        /\ Unless(h, ~Here(member[u]), [job[h] EXCEPT !.pc = "admit", !.op = member[u]])
        /\ UNCHANGED <<tables, requests, ghosts>>

(* createMembership or restoreMembership, as the row that was read says.   *)
(* Two insertions violate the unique key: the second transaction fails.    *)
CanWriteMembership(h) == job[h].op = "none" => member[job[h].user] = "none"

(* Faulty variant: the uses are counted down, from no limit at all.        *)
UseUpInvitation(i) == admitted' = [admitted EXCEPT ![i] = @ - 1]

(* incrementInvitationUseCount *)
UseInvitation(i) == admitted' = [admitted EXCEPT ![i] = @ + 1]

(* The membership, the default role, the use of the invitation, and what   *)
(* follows the commit.                                                     *)
Admit(h) ==
    LET u == job[h].user
    IN  /\ job[h].pc = "admit"
        /\ DefaultRole \notin Rewritten(h, u)
        /\ IF CanWriteMembership(h)
           THEN /\ member' = [member EXCEPT ![u] = "active"]
                /\ holds' = [holds EXCEPT ![u] = WithDefaultRole(@)]
                /\ UseInvitation(job[h].id)
           ELSE UNCHANGED <<member, holds, admitted>>
        /\ Unless(h, CanWriteMembership(h), [Idle EXCEPT !.pc = "detail", !.user = u])
        /\ UNCHANGED <<created, role, invite, requests, granted, given, delegated>>

(* getServerDetail reads the membership again and refuses who is no longer *)
(* here; otherwise MemberJoined is published. Either way the request ends. *)
Announce(h) ==
    /\ job[h].pc = "detail"
    /\ End(h)
    /\ UNCHANGED <<tables, requests, ghosts>>

(* markMembershipRemoved, and what deleteAllMembershipRoles has deleted    *)
RemoveMembership(u, rows) ==
    /\ member' = [member EXCEPT ![u] = "removed"]
    /\ holds' = [holds EXCEPT ![u] = @ \ rows]

(* leaveServer: the roles the statement finds are deleted, then the status *)
(* is written and the transaction commits.                                 *)
StartLeave(h, u) ==
    /\ Begin(h)
    /\ ~MembershipLocked(u)
    /\ holds[u] \cap Rewritten(h, u) = {}
    /\ Unless(h, Here(member[u]) /\ u # Owner,
              [Idle EXCEPT !.pc = "left", !.user = u, !.rows = holds[u]])
    /\ UNCHANGED <<tables, ghosts>>

Leave(h) ==
    LET u == job[h].user
    IN  /\ job[h].pc = "left"
        /\ RemoveMembership(u, job[h].rows)
        /\ End(h)
        /\ UNCHANGED <<created, role, invite, requests, ghosts>>

-----------------------------------------------------------------------------
(* manageMember: the rights of the actor and the target are read before    *)
(* the transaction begins; the status of the target is not tested.         *)
StartManage(h, a, u, op) ==
    /\ Begin(h)
    /\ Unless(h, AllowedOnServer(Context(a), "ManageMember"),
              [Idle EXCEPT !.pc = "target", !.op = op, !.actor = a, !.user = u,
                           !.context = Context(a)])
    /\ UNCHANGED <<tables, ghosts>>

AuthorizeManage(h) ==
    LET u == job[h].user
    IN  /\ job[h].pc = "target"
        /\ Unless(h, HasMembership(u) /\ MayTargetMember(job[h].context, Target(u)),
                  [job[h] EXCEPT !.pc = "rows", !.context = None])
        /\ UNCHANGED <<tables, requests, ghosts>>

(* The statement on the roles: all of them, the default one unless it is   *)
(* there (ON CONFLICT DO NOTHING), or none.                                *)
ManageRows(h) ==
    LET u == job[h].user
        rows == CASE job[h].op = "remove" -> holds[u]
                  [] job[h].op = "restore" -> {DefaultRole} \ holds[u]
                  [] OTHER -> {}
        touched == IF job[h].op = "restore" THEN {DefaultRole} ELSE rows
    IN  /\ job[h].pc = "rows"
        /\ touched \cap Rewritten(h, u) = {}
        /\ job' = [job EXCEPT ![h].pc = "status", ![h].rows = rows]
        /\ UNCHANGED <<tables, requests, ghosts>>

(* updateMembershipStatus, then the commit.                                *)
ManageStatus(h) ==
    LET u == job[h].user
    IN  /\ job[h].pc = "status"
        /\ ~MembershipLocked(u)
        /\ CASE job[h].op = "mute" ->
                    /\ member' = [member EXCEPT ![u] = "muted"]
                    /\ UNCHANGED holds
             [] job[h].op = "restore" ->
                    /\ member' = [member EXCEPT ![u] = "active"]
                    /\ holds' = [holds EXCEPT ![u] = @ \cup job[h].rows]
             [] OTHER -> RemoveMembership(u, job[h].rows)
        /\ End(h)
        /\ UNCHANGED <<created, role, invite, requests, ghosts>>

-----------------------------------------------------------------------------
(* createRole, updateRole, deleteRole. An update reads the role first and  *)
(* takes from that row what the request does not say: bits or priority are *)
(* None when the request leaves them out.                                  *)
StartCreateRole(h, a, bits, priority) ==
    /\ Begin(h)
    /\ job' = [job EXCEPT ![h] = [Idle EXCEPT !.pc = "actor", !.op = "create", !.actor = a,
                                              !.bits = bits, !.priority = priority]]
    /\ UNCHANGED <<tables, ghosts>>

StartUpdateRole(h, a, r, bits, priority) ==
    /\ Begin(h)
    /\ Unless(h, RoleExists(r) /\ (r = DefaultRole => priority \in {None, 0}),
              [Idle EXCEPT !.pc = "actor", !.op = "update", !.actor = a, !.id = r,
                           !.bits = IF bits = None THEN role[r].bits ELSE bits,
                           !.priority = IF priority = None THEN role[r].priority
                                        ELSE priority])
    /\ UNCHANGED <<tables, ghosts>>

StartDeleteRole(h, a, r) ==
    /\ Begin(h)
    /\ Unless(h, RoleExists(r),
              [Idle EXCEPT !.pc = "actor", !.op = "delete", !.actor = a, !.id = r])
    /\ UNCHANGED <<tables, ghosts>>

(* assertServerActionContext *)
AuthorizeActor(h) ==
    LET a == job[h].actor
    IN  /\ job[h].pc = "actor"
        /\ Unless(h, AllowedOnServer(Context(a), "ManageRole"),
                  [job[h] EXCEPT !.pc = "role", !.context = Context(a)])
        /\ UNCHANGED <<tables, requests, ghosts>>

(* What a decision compares with the actor: a role that is created has no  *)
(* row yet, and one that is deleted has no new one.                        *)
OldPriority(h) == IF job[h].op = "create" THEN {} ELSE {role[job[h].id].priority}

ComparedPriorities(h) ==
    OldPriority(h) \cup IF job[h].op = "delete" THEN {} ELSE {job[h].priority}

(* Faulty variant: the bits asked for are not compared with the actor's.   *)
NoDesiredBits(h) == {}

DesiredBits(h) == IF job[h].op = "delete" THEN {} ELSE job[h].bits

(* assertCanMutateRole, and deleteRole's test of the default role.         *)
RoleDecision(h) ==
    /\ job[h].op # "create" => RoleExists(job[h].id)
    /\ job[h].op = "delete" => job[h].id # DefaultRole
    /\ MayMutateRole(job[h].context, ComparedPriorities(h), DesiredBits(h))

AuthorizeRole(h) ==
    /\ job[h].pc = "role"
    /\ Unless(h, RoleDecision(h), [job[h] EXCEPT !.pc = "write", !.context = None])
    /\ UNCHANGED <<tables, requests, ghosts>>

(* The row that is written. What the owner writes is what others may pass  *)
(* on.                                                                     *)
PutRole(h, r) ==
    LET a == job[h].actor
    IN  /\ role' = [role EXCEPT ![r] = NewRole(job[h].bits, job[h].priority)]
        /\ granted' = IF a = Owner THEN granted \cup job[h].bits ELSE granted
        /\ given' = IF a = Owner THEN given \cup {job[h].priority} ELSE given
        /\ delegated' = IF a = Owner THEN delegated \ {r} ELSE delegated \cup {r}

CreateRole(h, r) ==
    /\ job[h].pc = "write" /\ job[h].op = "create"
    /\ role[r].status = "unused"
    /\ PutRole(h, r)
    /\ End(h)
    /\ UNCHANGED <<created, member, holds, invite, requests, admitted>>

(* An update of a row that is gone returns no row and the request fails.   *)
UpdateRole(h) ==
    LET r == job[h].id
    IN  /\ job[h].pc = "write" /\ job[h].op = "update"
        /\ IF RoleExists(r) THEN PutRole(h, r)
           ELSE UNCHANGED <<role, granted, given, delegated>>
        /\ End(h)
        /\ UNCHANGED <<created, member, holds, invite, requests, admitted>>

(* deleteRoleRow *)
WithoutRoleRow(r) == [role EXCEPT ![r] = [status |-> "deleted", bits |-> {}, priority |-> 0]]

(* Faulty variant: the foreign key does not cascade.                       *)
OrphaningDeleteRole(h) ==
    LET r == job[h].id
    IN  /\ job[h].pc = "write" /\ job[h].op = "delete"
        /\ role' = WithoutRoleRow(r)
        /\ End(h)
        /\ UNCHANGED <<created, member, holds, invite, requests, ghosts>>

(* The memberships lose the role with its row (ON DELETE CASCADE).         *)
DeleteRole(h) ==
    LET r == job[h].id
    IN  /\ job[h].pc = "write" /\ job[h].op = "delete"
        /\ role' = WithoutRoleRow(r)
        /\ holds' = [u \in Users |-> holds[u] \ {r}]
        /\ End(h)
        /\ UNCHANGED <<created, member, invite, requests, ghosts>>

-----------------------------------------------------------------------------
(* assignRoleToMember, removeRoleFromMember. The status of the target is   *)
(* not tested here either.                                                 *)
StartAssign(h, a, u, r, op) ==
    /\ Begin(h)
    /\ Unless(h, AllowedOnServer(Context(a), "ManageRole"),
              [Idle EXCEPT !.pc = "assign", !.op = op, !.actor = a, !.user = u, !.id = r,
                           !.context = Context(a)])
    /\ UNCHANGED <<tables, ghosts>>

AssignDecision(h) ==
    LET r == job[h].id
    IN  /\ HasMembership(job[h].user)
        /\ RoleExists(r)
        /\ MayTargetMember(job[h].context, Target(job[h].user))
        /\ MayMutateRole(job[h].context, {role[r].priority}, role[r].bits)
        /\ job[h].op = "unassign" => r # DefaultRole

AuthorizeAssign(h) ==
    /\ job[h].pc = "assign"
    /\ Unless(h, AssignDecision(h), [job[h] EXCEPT !.pc = "member_role", !.context = None])
    /\ UNCHANGED <<tables, requests, ghosts>>

(* A role that has been deleted violates the foreign key: the request      *)
(* fails.                                                                  *)
AssignRole(h) ==
    LET u == job[h].user
        r == job[h].id
    IN  /\ job[h].pc = "member_role" /\ job[h].op = "assign"
        /\ r \notin Rewritten(h, u)
        /\ holds' = IF RoleExists(r) THEN [holds EXCEPT ![u] = @ \cup {r}] ELSE holds
        /\ End(h)
        /\ UNCHANGED <<created, member, role, invite, requests, ghosts>>

(* deleteMembershipRole *)
WithoutRole(u, r) == [holds EXCEPT ![u] = @ \ {r}]

RemoveRole(h) ==
    LET u == job[h].user
        r == job[h].id
    IN  /\ job[h].pc = "member_role" /\ job[h].op = "unassign"
        /\ r \notin Rewritten(h, u)
        /\ holds' = WithoutRole(u, r)
        /\ End(h)
        /\ UNCHANGED <<created, member, role, invite, requests, ghosts>>

-----------------------------------------------------------------------------
(* createInvite, revokeInvite: PermissionGuard, then one statement. The    *)
(* id of a creation is None: the insertion chooses one.                    *)
StartInvite(h, a, i) ==
    /\ Begin(h)
    /\ Unless(h, AllowedOnServer(Context(a), "CreateInvite"),
              [Idle EXCEPT !.pc = "invite", !.actor = a, !.id = i])
    /\ UNCHANGED <<tables, ghosts>>

CreateInvite(h, i) ==
    /\ job[h].pc = "invite" /\ job[h].id = None
    /\ InsertInvitation(i)
    /\ End(h)
    /\ UNCHANGED <<created, member, holds, role, requests, ghosts>>

(* revokeInvitation: an invitation that is not active stays as it is.      *)
RevokedInvitation(i) ==
    IF invite[i] = "active" THEN [invite EXCEPT ![i] = "revoked"] ELSE invite

RevokeInvite(h, i) ==
    /\ job[h].pc = "invite" /\ job[h].id = i
    /\ ~InvitationLocked(i)
    /\ invite' = RevokedInvitation(i)
    /\ End(h)
    /\ UNCHANGED <<created, member, holds, role, requests, ghosts>>

(* The database refuses a statement (a deadlock between the rows of two    *)
(* transactions, a lost connection): everything is rolled back.            *)
Rollback(h) ==
    /\ job[h].pc \in {"member", "admit", "left", "rows", "status"}
    /\ End(h)
    /\ UNCHANGED <<tables, requests, ghosts>>

-----------------------------------------------------------------------------
Start(h) ==
    \/ \E u \in Users, i \in Invites : StartJoin(h, u, i)
    \/ \E u \in Users : StartLeave(h, u)
    \/ \E a, u \in Users, op \in {"mute", "restore", "remove"} : StartManage(h, a, u, op)
    \/ \E a \in Users, b \in BitSets, p \in Priorities : StartCreateRole(h, a, b, p)
    \/ \E a \in Users, r \in Roles, b \in BitSets \cup {None}, p \in Priorities \cup {None} :
          StartUpdateRole(h, a, r, b, p)
    \/ \E a \in Users, r \in Roles : StartDeleteRole(h, a, r)
    \/ \E a, u \in Users, r \in Roles, op \in {"assign", "unassign"} : StartAssign(h, a, u, r, op)
    \/ \E a \in Users, i \in Invites \cup {None} : StartInvite(h, a, i)

Continue(h) ==
    \/ LockMember(h)
    \/ Admit(h)
    \/ Announce(h)
    \/ Leave(h)
    \/ AuthorizeManage(h)
    \/ ManageRows(h)
    \/ ManageStatus(h)
    \/ AuthorizeActor(h)
    \/ AuthorizeRole(h)
    \/ \E r \in Roles : CreateRole(h, r)
    \/ UpdateRole(h)
    \/ DeleteRole(h)
    \/ AuthorizeAssign(h)
    \/ AssignRole(h)
    \/ RemoveRole(h)
    \/ \E i \in Invites : CreateInvite(h, i) \/ RevokeInvite(h, i)
    \/ Rollback(h)

Next ==
    \/ CreateServer
    \/ \E h \in Handlers : Start(h) \/ Continue(h)

Spec == Init /\ [][Next]_vars

-----------------------------------------------------------------------------
Statuses == {"none", "active", "muted", "removed"}

Steps == {"idle", "member", "admit", "detail", "left", "target", "rows", "status", "actor", "role",
          "write", "assign", "member_role", "invite"}

Contexts == [owner : BOOLEAN, status : Statuses, roles : SUBSET Roles,
             bits : SUBSET Bits, rank : SUBSET Nat]

Jobs == [pc : Steps,
         op : Statuses \cup {None, "mute", "restore", "remove", "create", "update",
                             "delete", "assign", "unassign"},
         actor : Users \cup {None}, user : Users \cup {None},
         id : Roles \cup Invites \cup {None},
         bits : SUBSET Bits, priority : Nat,
         context : Contexts \cup {None}, rows : SUBSET Roles]

(* The variables keep to their types.                                      *)
TypeOK ==
    /\ created \in BOOLEAN
    /\ member \in [Users -> Statuses]
    /\ holds \in [Users -> SUBSET Roles]
    /\ role \in [Roles -> [status : {"unused", "live", "deleted"}, bits : SUBSET Bits,
                           priority : Nat]]
    /\ invite \in [Invites -> {"unused", "active", "revoked"}]
    /\ job \in [Handlers -> Jobs]
    /\ requests \in 0..MaxRequests
    /\ granted \in SUBSET Bits
    /\ given \in SUBSET Nat
    /\ delegated \in SUBSET Roles
    /\ admitted \in [Invites -> Nat]

(* Permissions are only ever passed on: whatever members grant each other, *)
(* in requests that overlap and decide on rows that change meanwhile, no   *)
(* role has a bit that neither the default role began with nor the owner   *)
(* ever wrote.                                                             *)
NoEscalation == \A r \in Roles : role[r].bits \subseteq granted

(* Nobody but the owner makes a role as high as the highest the owner has  *)
(* made: ranks are handed down, never up.                                  *)
BelowTheTop ==
    \A r \in delegated : role[r].status = "live" => \E p \in given : role[r].priority < p

(* A role that is gone is held by nobody, although an assignment may have  *)
(* been decided before the deletion and written after it.                  *)
HeldRolesExist == \A u \in Users : \A r \in holds[u] : role[r].status = "live"

(* An invitation that has been revoked admits nobody any more, not even    *)
(* whoever was joining with it when it was revoked.                        *)
RevokedAdmitsNobody ==
    [][\A i \in Invites : invite[i] = "revoked" => admitted'[i] = admitted[i]]_vars
=============================================================================
