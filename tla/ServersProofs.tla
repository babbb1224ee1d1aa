--------------------------- MODULE ServersProofs ---------------------------
(***************************************************************************)
(* Theorems about Servers for any users, roles, invitations, requests and  *)
(* whatever bits and priorities requests ask for.                          *)
(***************************************************************************)
EXTENDS Servers, TLAPS

(* What a decision has read is within what the owner had given by then; as *)
(* that only grows, it does not matter how old the reading is.             *)
WithinGrants(context, a) ==
    /\ context \in Contexts
    /\ context.owner => a = Owner
    /\ context.bits \subseteq granted
    /\ \A q \in context.rank : \E p \in given : q <= p

Sound(j) ==
    /\ j.pc # "idle" => created
    /\ j.pc \in {"member", "admit"} =>
          /\ j.user \in Users
          /\ j.id \in Invites
          /\ invite[j.id] = "active"
    /\ j.pc \in {"left", "target", "rows", "status"} => j.user \in Users
    /\ j.pc = "status" /\ j.op = "restore" => j.rows \subseteq {DefaultRole}
    /\ j.pc \in {"actor", "role", "write"} =>
          /\ j.actor \in Users
          /\ j.op \in {"create", "update", "delete"}
          /\ j.op # "create" => j.id \in Roles
    /\ j.pc = "role" => WithinGrants(j.context, j.actor)
    /\ j.pc = "write" /\ j.op = "delete" => j.id # DefaultRole
    /\ j.pc = "write" /\ j.op # "delete" =>
          \/ j.actor = Owner
          \/ j.bits \subseteq granted /\ \E p \in given : j.priority < p
    /\ j.pc \in {"assign", "member_role"} => j.user \in Users /\ j.id \in Roles

JobInv == \A h \in Handlers : Sound(job[h])

PriorityInv == \A r \in Roles : \E p \in given : role[r].priority <= p

CreatedInv ==
    /\ created => role[DefaultRole].status = "live"
    /\ ~created => delegated = {}
    /\ 0 \in given
    /\ DefaultBits \subseteq granted

IInv ==
    /\ TypeOK
    /\ JobInv
    /\ NoEscalation
    /\ PriorityInv
    /\ BelowTheTop
    /\ HeldRolesExist
    /\ CreatedInv

(* A step gives one handler a job for which this holds; one that is not    *)
(* over has changed nothing yet.                                           *)
Moves(h, next) ==
    /\ job' = [job EXCEPT ![h] = next]
    /\ next \in Jobs
    /\ Sound(next)
    /\ next.pc = "idle" \/ next.pc = "detail" \/ UNCHANGED <<tables, ghosts>>

-----------------------------------------------------------------------------
LEMMA IdleMoves == Idle \in Jobs /\ Sound(Idle) /\ Idle.pc = "idle"
BY DEF Idle, Jobs, Sound, Steps

LEMMA EndMoves ==
  ASSUME NEW h \in Handlers, End(h)
  PROVE  Moves(h, Idle)
BY IdleMoves DEF End, Moves

(* What is read of a member is within the grants at that time.             *)
LEMMA ContextWithinGrants ==
  ASSUME IInv, NEW a \in Users
  PROVE  WithinGrants(Context(a), a)
<1>1. holds[a] \in SUBSET Roles /\ member[a] \in Statuses
  BY DEF IInv, TypeOK
<1>2. ASSUME NEW r \in Roles
      PROVE  role[r].bits \in SUBSET Bits /\ role[r].bits \subseteq granted
                /\ role[r].priority \in Nat
  BY DEF IInv, TypeOK, NoEscalation
<1>3. UNION {role[r].bits : r \in holds[a]} \in SUBSET (Bits \cap granted)
  BY <1>1, <1>2
<1>4. {role[r].priority : r \in holds[a]} \in SUBSET Nat
  BY <1>1, <1>2
<1>5. \A q \in {role[r].priority : r \in holds[a]} : \E p \in given : q <= p
  BY <1>1 DEF IInv, PriorityInv
<1>6. Context(a) \in Contexts
  BY <1>1, <1>3, <1>4 DEF Context, Contexts
<1>. QED
  BY <1>3, <1>5, <1>6 DEF WithinGrants, Context

-----------------------------------------------------------------------------
LEMMA JoinMoves ==
  ASSUME IInv, NEW h \in Handlers
  PROVE  /\ \A u \in Users, i \in Invites :
               StartJoin(h, u, i) => \E next \in Jobs : Moves(h, next)
         /\ LockMember(h) => \E next \in Jobs : Moves(h, next)
         /\ Admit(h) => \E next \in Jobs : Moves(h, next)
         /\ Announce(h) => \E next \in Jobs : Moves(h, next)
<1>. job[h] \in Jobs /\ Sound(job[h])
  BY DEF IInv, TypeOK, JobInv
<1>1. ASSUME NEW u \in Users, NEW i \in Invites, StartJoin(h, u, i)
      PROVE  \E next \in Jobs : Moves(h, next)
  <2>. DEFINE next == [Idle EXCEPT !.pc = "member", !.user = u, !.id = i]
  <2>1. next \in Jobs
    BY DEF Idle, Jobs, Steps
  <2>2. CASE invite[i] = "active"
    <3>1. Sound(next)
      BY <1>1, <2>2 DEF Sound, Idle, StartJoin, Begin
    <3>. QED
      BY <1>1, <2>1, <2>2, <3>1 DEF StartJoin, Unless, Moves
  <2>3. CASE invite[i] # "active"
    BY <1>1, <2>3, IdleMoves DEF StartJoin, Unless, Moves
  <2>. QED
    BY <2>2, <2>3
<1>2. ASSUME LockMember(h)
      PROVE  \E next \in Jobs : Moves(h, next)
  <2>. DEFINE u == job[h].user
              next == [job[h] EXCEPT !.pc = "admit", !.op = member[u]]
  <2>1. u \in Users /\ member[u] \in Statuses
    BY <1>2 DEF LockMember, Sound, IInv, TypeOK
  <2>2. next \in Jobs
    BY <2>1 DEF Jobs, Steps
  <2>3. Sound(next)
    BY <1>2, <2>1 DEF Sound, LockMember, Jobs
  <2>. QED
    BY <1>2, <2>2, <2>3, IdleMoves DEF LockMember, Unless, Moves
<1>3. ASSUME Admit(h)
      PROVE  \E next \in Jobs : Moves(h, next)
  <2>. DEFINE u == job[h].user
              next == [Idle EXCEPT !.pc = "detail", !.user = u]
  <2>1. u \in Users /\ created
    BY <1>3 DEF Admit, Sound
  <2>2. next \in Jobs
    BY <2>1 DEF Idle, Jobs, Steps
  <2>3. next.pc = "detail"
    BY DEF Idle
  <2>4. Sound(next)
    BY <2>1, <2>3 DEF Sound
  <2>. QED
    BY <1>3, <2>2, <2>3, <2>4, IdleMoves DEF Admit, Unless, Moves
<1>4. ASSUME Announce(h)
      PROVE  \E next \in Jobs : Moves(h, next)
  BY <1>4, EndMoves, IdleMoves DEF Announce
<1>. QED
  BY <1>1, <1>2, <1>3, <1>4

LEMMA ManageMoves ==
  ASSUME IInv, NEW h \in Handlers
  PROVE  /\ \A u \in Users : StartLeave(h, u) => \E next \in Jobs : Moves(h, next)
         /\ \A a, u \in Users, op \in {"mute", "restore", "remove"} :
               StartManage(h, a, u, op) => \E next \in Jobs : Moves(h, next)
         /\ AuthorizeManage(h) => \E next \in Jobs : Moves(h, next)
         /\ ManageRows(h) => \E next \in Jobs : Moves(h, next)
         /\ Leave(h) \/ ManageStatus(h) => \E next \in Jobs : Moves(h, next)
<1>. job[h] \in Jobs /\ Sound(job[h])
  BY DEF IInv, TypeOK, JobInv
<1>1. ASSUME NEW u \in Users, StartLeave(h, u)
      PROVE  \E next \in Jobs : Moves(h, next)
  <2>. DEFINE next == [Idle EXCEPT !.pc = "left", !.user = u, !.rows = holds[u]]
  <2>1. holds[u] \in SUBSET Roles
    BY DEF IInv, TypeOK
  <2>2. next \in Jobs
    BY <2>1 DEF Idle, Jobs, Steps
  <2>3. Sound(next)
    BY <1>1 DEF Sound, Idle, StartLeave, Begin
  <2>. QED
    BY <1>1, <2>2, <2>3, IdleMoves DEF StartLeave, Unless, Moves
<1>2. ASSUME NEW a \in Users, NEW u \in Users, NEW op \in {"mute", "restore", "remove"},
             StartManage(h, a, u, op)
      PROVE  \E next \in Jobs : Moves(h, next)
  <2>. DEFINE next == [Idle EXCEPT !.pc = "target", !.op = op, !.actor = a, !.user = u,
                                   !.context = Context(a)]
  <2>1. Context(a) \in Contexts
    BY ContextWithinGrants DEF WithinGrants
  <2>2. next \in Jobs
    BY <2>1 DEF Idle, Jobs, Steps
  <2>3. Sound(next)
    BY <1>2 DEF Sound, Idle, StartManage, Begin
  <2>. QED
    BY <1>2, <2>2, <2>3, IdleMoves DEF StartManage, Unless, Moves
<1>3. ASSUME AuthorizeManage(h)
      PROVE  \E next \in Jobs : Moves(h, next)
  <2>. DEFINE next == [job[h] EXCEPT !.pc = "rows", !.context = None]
  <2>1. next \in Jobs
    BY DEF Jobs, Steps
  <2>2. Sound(next)
    BY <1>3 DEF Sound, AuthorizeManage, Jobs
  <2>. QED
    BY <1>3, <2>1, <2>2, IdleMoves DEF AuthorizeManage, Unless, Moves
<1>4. ASSUME ManageRows(h)
      PROVE  \E next \in Jobs : Moves(h, next)
  <2>. DEFINE u == job[h].user
              rows == CASE job[h].op = "remove" -> holds[u]
                        [] job[h].op = "restore" -> {DefaultRole} \ holds[u]
                        [] OTHER -> {}
              next == [job[h] EXCEPT !.pc = "status", !.rows = rows]
  <2>1. u \in Users /\ holds[u] \in SUBSET Roles
    BY <1>4 DEF ManageRows, Sound, IInv, TypeOK
  <2>2. rows \in SUBSET Roles /\ (job[h].op = "restore" => rows \subseteq {DefaultRole})
    BY <2>1, ConstantsAssumption
  <2>. HIDE DEF rows
  <2>3. next \in Jobs
    BY <2>2 DEF Jobs, Steps
  <2>4. Sound(next)
    BY <1>4, <2>2 DEF Sound, ManageRows, Jobs
  <2>. QED
    BY <1>4, <2>3, <2>4 DEF ManageRows, Moves, rows
<1>5. ASSUME Leave(h) \/ ManageStatus(h)
      PROVE  \E next \in Jobs : Moves(h, next)
  BY <1>5, EndMoves, IdleMoves DEF Leave, ManageStatus
<1>. QED
  BY <1>1, <1>2, <1>3, <1>4, <1>5

LEMMA RoleStarts ==
  ASSUME IInv, NEW h \in Handlers, NEW a \in Users
  PROVE  /\ \A b \in BitSets, p \in Priorities :
               StartCreateRole(h, a, b, p) => \E next \in Jobs : Moves(h, next)
         /\ \A r \in Roles, b \in BitSets \cup {None}, p \in Priorities \cup {None} :
               StartUpdateRole(h, a, r, b, p) => \E next \in Jobs : Moves(h, next)
         /\ \A r \in Roles : StartDeleteRole(h, a, r) => \E next \in Jobs : Moves(h, next)
<1>1. ASSUME NEW b \in BitSets, NEW p \in Priorities, StartCreateRole(h, a, b, p)
      PROVE  \E next \in Jobs : Moves(h, next)
  <2>. DEFINE next == [Idle EXCEPT !.pc = "actor", !.op = "create", !.actor = a,
                                   !.bits = b, !.priority = p]
  <2>1. next \in Jobs
    BY ConstantsAssumption DEF Idle, Jobs, Steps
  <2>2. Sound(next)
    BY <1>1 DEF Sound, Idle, StartCreateRole, Begin
  <2>. QED
    BY <1>1, <2>1, <2>2 DEF StartCreateRole, Moves
<1>2. ASSUME NEW r \in Roles, NEW b \in BitSets \cup {None}, NEW p \in Priorities \cup {None},
             StartUpdateRole(h, a, r, b, p)
      PROVE  \E next \in Jobs : Moves(h, next)
  <2>. DEFINE bits == IF b = None THEN role[r].bits ELSE b
              priority == IF p = None THEN role[r].priority ELSE p
              next == [Idle EXCEPT !.pc = "actor", !.op = "update", !.actor = a, !.id = r,
                                   !.bits = bits, !.priority = priority]
  <2>1. bits \in SUBSET Bits /\ priority \in Nat
    BY ConstantsAssumption DEF IInv, TypeOK
  <2>. HIDE DEF bits, priority
  <2>2. next \in Jobs
    BY <2>1 DEF Idle, Jobs, Steps
  <2>3. Sound(next)
    BY <1>2 DEF Sound, Idle, StartUpdateRole, Begin
  <2>. QED
    BY <1>2, <2>2, <2>3, IdleMoves DEF StartUpdateRole, Unless, Moves, bits, priority
<1>3. ASSUME NEW r \in Roles, StartDeleteRole(h, a, r)
      PROVE  \E next \in Jobs : Moves(h, next)
  <2>. DEFINE next == [Idle EXCEPT !.pc = "actor", !.op = "delete", !.actor = a, !.id = r]
  <2>1. next \in Jobs
    BY DEF Idle, Jobs, Steps
  <2>2. Sound(next)
    BY <1>3 DEF Sound, Idle, StartDeleteRole, Begin
  <2>. QED
    BY <1>3, <2>1, <2>2, IdleMoves DEF StartDeleteRole, Unless, Moves
<1>. QED
  BY <1>1, <1>2, <1>3

(* The decision admits a role within the grants, or the owner decides.     *)
LEMMA DecisionWithinGrants ==
  ASSUME IInv, NEW h \in Handlers, job[h].pc = "role", RoleDecision(h)
  PROVE  /\ job[h].op = "delete" => job[h].id # DefaultRole
         /\ job[h].op # "delete" =>
               \/ job[h].actor = Owner
               \/ job[h].bits \subseteq granted /\ \E p \in given : job[h].priority < p
<1>. DEFINE j == job[h]
<1>1. j \in Jobs /\ Sound(j)
  BY DEF IInv, TypeOK, JobInv
<1>2. WithinGrants(j.context, j.actor) /\ j.priority \in Nat /\ given \subseteq Nat
  BY <1>1 DEF Sound, Jobs, IInv, TypeOK
<1>3. CASE j.op # "delete" /\ ~j.context.owner
  <2>1. j.bits \subseteq j.context.bits /\ \E q \in j.context.rank : q > j.priority
    BY <1>3 DEF RoleDecision, MayMutateRole, ComparedPriorities, DesiredBits, Outranks
  <2>2. PICK q \in j.context.rank : q > j.priority
    BY <2>1
  <2>3. PICK p \in given : q <= p
    BY <1>2 DEF WithinGrants
  <2>4. q \in Nat /\ p \in Nat
    BY <1>2 DEF WithinGrants, Contexts
  <2>5. j.priority < p
    BY <1>2, <2>2, <2>3, <2>4
  <2>. QED
    BY <1>2, <1>3, <2>1, <2>5 DEF WithinGrants
<1>4. CASE j.op = "delete"
  BY <1>4 DEF RoleDecision
<1>5. CASE j.op # "delete" /\ j.context.owner
  BY <1>2, <1>5 DEF WithinGrants
<1>. QED
  BY <1>3, <1>4, <1>5

LEMMA RoleMoves ==
  ASSUME IInv, NEW h \in Handlers
  PROVE  /\ AuthorizeActor(h) => \E next \in Jobs : Moves(h, next)
         /\ AuthorizeRole(h) => \E next \in Jobs : Moves(h, next)
         /\ \A r \in Roles : CreateRole(h, r) => \E next \in Jobs : Moves(h, next)
         /\ UpdateRole(h) \/ DeleteRole(h) => \E next \in Jobs : Moves(h, next)
<1>. job[h] \in Jobs /\ Sound(job[h])
  BY DEF IInv, TypeOK, JobInv
<1>1. ASSUME AuthorizeActor(h)
      PROVE  \E next \in Jobs : Moves(h, next)
  <2>. DEFINE a == job[h].actor
              context == Context(a)
              next == [job[h] EXCEPT !.pc = "role", !.context = context]
  <2>1. a \in Users
    BY <1>1 DEF AuthorizeActor, Sound
  <2>2. WithinGrants(context, a)
    BY <2>1, ContextWithinGrants
  <2>3. context \in Contexts
    BY <2>2 DEF WithinGrants
  <2>. HIDE DEF context
  <2>4. next \in Jobs
    BY <2>3 DEF Jobs, Steps
  <2>5. Sound(next)
    <3>1. /\ next.pc = "role" /\ next.context = context /\ next.actor = a
          /\ next.op = job[h].op /\ next.id = job[h].id
      BY DEF Jobs
    <3>. HIDE DEF next
    <3>. QED
      BY <1>1, <2>2, <3>1 DEF Sound, AuthorizeActor
  <2>. QED
    BY <1>1, <2>4, <2>5, IdleMoves DEF AuthorizeActor, Unless, Moves, context
<1>2. ASSUME AuthorizeRole(h)
      PROVE  \E next \in Jobs : Moves(h, next)
  <2>. DEFINE next == [job[h] EXCEPT !.pc = "write", !.context = None]
  <2>1. next \in Jobs
    BY DEF Jobs, Steps
  <2>2. CASE RoleDecision(h)
    <3>1. Sound(next)
      BY <1>2, <2>2, DecisionWithinGrants DEF Sound, AuthorizeRole, Jobs
    <3>. QED
      BY <1>2, <2>1, <2>2, <3>1 DEF AuthorizeRole, Unless, Moves
  <2>3. CASE ~RoleDecision(h)
    BY <1>2, <2>3, IdleMoves DEF AuthorizeRole, Unless, Moves
  <2>. QED
    BY <2>2, <2>3
<1>3. ASSUME NEW r \in Roles, CreateRole(h, r)
      PROVE  \E next \in Jobs : Moves(h, next)
  BY <1>3, EndMoves, IdleMoves DEF CreateRole
<1>4. ASSUME UpdateRole(h) \/ DeleteRole(h)
      PROVE  \E next \in Jobs : Moves(h, next)
  BY <1>4, EndMoves, IdleMoves DEF UpdateRole, DeleteRole
<1>. QED
  BY <1>1, <1>2, <1>3, <1>4

LEMMA AssignAndInviteMoves ==
  ASSUME IInv, NEW h \in Handlers
  PROVE  /\ \A a, u \in Users, r \in Roles, op \in {"assign", "unassign"} :
               StartAssign(h, a, u, r, op) => \E next \in Jobs : Moves(h, next)
         /\ AuthorizeAssign(h) => \E next \in Jobs : Moves(h, next)
         /\ AssignRole(h) \/ RemoveRole(h) => \E next \in Jobs : Moves(h, next)
         /\ \A a \in Users, i \in Invites \cup {None} :
               StartInvite(h, a, i) => \E next \in Jobs : Moves(h, next)
         /\ \A i \in Invites :
               CreateInvite(h, i) \/ RevokeInvite(h, i) => \E next \in Jobs : Moves(h, next)
         /\ Rollback(h) => \E next \in Jobs : Moves(h, next)
<1>. job[h] \in Jobs /\ Sound(job[h])
  BY DEF IInv, TypeOK, JobInv
<1>1. ASSUME NEW a \in Users, NEW u \in Users, NEW r \in Roles,
             NEW op \in {"assign", "unassign"}, StartAssign(h, a, u, r, op)
      PROVE  \E next \in Jobs : Moves(h, next)
  <2>. DEFINE next == [Idle EXCEPT !.pc = "assign", !.op = op, !.actor = a, !.user = u,
                                   !.id = r, !.context = Context(a)]
  <2>1. Context(a) \in Contexts
    BY ContextWithinGrants DEF WithinGrants
  <2>2. next \in Jobs
    BY <2>1 DEF Idle, Jobs, Steps
  <2>3. Sound(next)
    BY <1>1 DEF Sound, Idle, StartAssign, Begin
  <2>. QED
    BY <1>1, <2>2, <2>3, IdleMoves DEF StartAssign, Unless, Moves
<1>2. ASSUME AuthorizeAssign(h)
      PROVE  \E next \in Jobs : Moves(h, next)
  <2>. DEFINE next == [job[h] EXCEPT !.pc = "member_role", !.context = None]
  <2>1. next \in Jobs
    BY DEF Jobs, Steps
  <2>2. Sound(next)
    BY <1>2 DEF Sound, AuthorizeAssign, Jobs
  <2>. QED
    BY <1>2, <2>1, <2>2, IdleMoves DEF AuthorizeAssign, Unless, Moves
<1>3. ASSUME NEW a \in Users, NEW i \in Invites \cup {None}, StartInvite(h, a, i)
      PROVE  \E next \in Jobs : Moves(h, next)
  <2>. DEFINE next == [Idle EXCEPT !.pc = "invite", !.actor = a, !.id = i]
  <2>1. next \in Jobs
    BY DEF Idle, Jobs, Steps
  <2>2. Sound(next)
    BY <1>3 DEF Sound, Idle, StartInvite, Begin
  <2>. QED
    BY <1>3, <2>1, <2>2, IdleMoves DEF StartInvite, Unless, Moves
<1>4. ASSUME AssignRole(h) \/ RemoveRole(h) \/ Rollback(h)
      PROVE  \E next \in Jobs : Moves(h, next)
  BY <1>4, EndMoves, IdleMoves DEF AssignRole, RemoveRole, Rollback
<1>5. ASSUME NEW i \in Invites, CreateInvite(h, i) \/ RevokeInvite(h, i)
      PROVE  \E next \in Jobs : Moves(h, next)
  BY <1>5, EndMoves, IdleMoves DEF CreateInvite, RevokeInvite
<1>. QED
  BY <1>1, <1>2, <1>3, <1>4, <1>5

LEMMA HandlerMoves ==
  ASSUME IInv, NEW h \in Handlers, Start(h) \/ Continue(h)
  PROVE  \E next \in Jobs : Moves(h, next)
BY JoinMoves, ManageMoves, RoleStarts, RoleMoves, AssignAndInviteMoves DEF Start, Continue

-----------------------------------------------------------------------------
(* The steps that write a table.                                           *)
Writes(h) ==
    \/ Admit(h)
    \/ Leave(h)
    \/ ManageStatus(h)
    \/ \E r \in Roles : CreateRole(h, r)
    \/ UpdateRole(h)
    \/ DeleteRole(h)
    \/ AssignRole(h)
    \/ RemoveRole(h)
    \/ \E i \in Invites : CreateInvite(h, i) \/ RevokeInvite(h, i)

LEMMA OthersOnlyRead ==
  ASSUME NEW h \in Handlers, Start(h) \/ Continue(h), ~Writes(h)
  PROVE  UNCHANGED <<tables, ghosts>>
<1>1. CASE Start(h)
  BY <1>1 DEF Start, StartJoin, StartLeave, StartManage, StartCreateRole, StartUpdateRole,
              StartDeleteRole, StartAssign, StartInvite
<1>2. CASE Continue(h)
  BY <1>2 DEF Continue, Writes, LockMember, Announce, AuthorizeManage, ManageRows,
              AuthorizeActor, AuthorizeRole, AuthorizeAssign, Rollback
<1>. QED
  BY <1>1, <1>2

(* What the owner has granted and given only grows.                        *)
LEMMA PutRoleGrows ==
  ASSUME NEW h \in Handlers, NEW r \in Roles, PutRole(h, r)
  PROVE  granted \subseteq granted' /\ given \subseteq given'
BY DEF PutRole

LEMMA GrantsGrow ==
  ASSUME NEW h \in Handlers, Start(h) \/ Continue(h)
  PROVE  granted \subseteq granted' /\ given \subseteq given' /\ created' = created
<1>1. CASE ~Writes(h)
  BY <1>1, OthersOnlyRead DEF tables, ghosts
<1>2. CASE \E r \in Roles : CreateRole(h, r)
  BY <1>2, PutRoleGrows DEF CreateRole
<1>3. CASE Admit(h) \/ Leave(h) \/ ManageStatus(h)
  BY <1>3 DEF Admit, Leave, ManageStatus, ghosts
<1>4. CASE DeleteRole(h) \/ AssignRole(h) \/ RemoveRole(h)
  BY <1>4 DEF DeleteRole, AssignRole, RemoveRole, ghosts
<1>5. CASE \E i \in Invites : CreateInvite(h, i) \/ RevokeInvite(h, i)
  BY <1>5 DEF CreateInvite, RevokeInvite, ghosts
<1>6. CASE UpdateRole(h)
  <2>1. CASE RoleExists(job[h].id) /\ job[h].id \in Roles
    BY <1>6, <2>1, PutRoleGrows DEF UpdateRole
  <2>2. CASE RoleExists(job[h].id)
    BY <1>6, <2>2 DEF UpdateRole, PutRole
  <2>3. CASE ~RoleExists(job[h].id)
    BY <1>6, <2>3 DEF UpdateRole
  <2>. QED
    BY <2>2, <2>3
<1>. QED
  BY <1>1, <1>2, <1>3, <1>4, <1>5, <1>6 DEF Writes

(* Whoever is joining holds the invitation.                                *)
LEMMA JoinedInvitationStays ==
  ASSUME IInv, NEW h \in Handlers, Start(h) \/ Continue(h), NEW g \in Handlers, g # h,
         job[g].pc \in {"member", "admit"}
  PROVE  invite'[job[g].id] = "active"
<1>. DEFINE i == job[g].id
<1>1. i \in Invites /\ invite[i] = "active" /\ invite \in [Invites -> {"unused", "active", "revoked"}]
  BY DEF IInv, TypeOK, JobInv, Sound
<1>2. CASE UNCHANGED invite
  BY <1>1, <1>2
<1>3. ASSUME NEW k \in Invites, CreateInvite(h, k)
      PROVE  invite'[i] = "active"
  BY <1>1, <1>3 DEF CreateInvite, InsertInvitation
<1>4. ASSUME NEW k \in Invites, RevokeInvite(h, k)
      PROVE  invite'[i] = "active"
  <2>1. k # i
    BY <1>4 DEF RevokeInvite, InvitationLocked
  <2>. QED
    BY <1>1, <1>4, <2>1 DEF RevokeInvite, RevokedInvitation
<1>5. CASE ~Writes(h)
  BY <1>2, <1>5, OthersOnlyRead DEF tables
<1>6. CASE Writes(h) /\ ~\E k \in Invites : CreateInvite(h, k) \/ RevokeInvite(h, k)
  <2>1. UNCHANGED invite
    BY <1>6 DEF Writes, Admit, Leave, ManageStatus, CreateRole, UpdateRole, DeleteRole,
                AssignRole, RemoveRole
  <2>. QED
    BY <1>2, <2>1
<1>. QED
  BY <1>3, <1>4, <1>5, <1>6

LEMMA JobsStaySound ==
  ASSUME IInv, NEW h \in Handlers, Start(h) \/ Continue(h)
  PROVE  JobInv' /\ (job \in [Handlers -> Jobs])'
<1>1. PICK next \in Jobs : Moves(h, next)
  BY HandlerMoves
<1>2. job \in [Handlers -> Jobs]
  BY DEF IInv, TypeOK
<1>3. job' \in [Handlers -> Jobs]
  BY <1>1, <1>2 DEF Moves
<1>4. granted \subseteq granted' /\ given \subseteq given' /\ created' = created
  BY GrantsGrow
<1>5. ASSUME NEW g \in Handlers, g # h
      PROVE  Sound(job[g])'
  <2>1. job'[g] = job[g] /\ Sound(job[g])
    BY <1>1, <1>2, <1>5 DEF Moves, IInv, JobInv
  <2>2. job[g].pc \in {"member", "admit"} => invite'[job[g].id] = "active"
    BY <1>5, JoinedInvitationStays
  <2>. QED
    BY <1>4, <2>1, <2>2 DEF Sound, WithinGrants
<1>6. Sound(job[h])'
  <2>1. job'[h] = next /\ Sound(next)
    BY <1>1, <1>2 DEF Moves
  <2>2. CASE next.pc \in {"idle", "detail"}
    BY <1>4, <2>1, <2>2 DEF Sound
  <2>3. CASE next.pc \notin {"idle", "detail"}
    <3>1. UNCHANGED <<tables, ghosts>>
      BY <1>1, <2>3 DEF Moves
    <3>. QED
      BY <2>1, <3>1 DEF Sound, WithinGrants, tables, ghosts
  <2>. QED
    BY <2>2, <2>3
<1>. QED
  BY <1>3, <1>5, <1>6 DEF JobInv

-----------------------------------------------------------------------------
(* What the tables of members and invitations look like after a step.      *)
MembersTyped ==
    /\ created \in BOOLEAN
    /\ member \in [Users -> Statuses]
    /\ holds \in [Users -> SUBSET Roles]
    /\ invite \in [Invites -> {"unused", "active", "revoked"}]
    /\ requests \in 0..MaxRequests
    /\ admitted \in [Invites -> Nat]

LEMMA RequestsStayTyped ==
  ASSUME IInv, NEW h \in Handlers, Start(h) \/ Continue(h)
  PROVE  requests' \in 0..MaxRequests
<1>0. requests \in 0..MaxRequests /\ MaxRequests \in Nat
  BY ConstantsAssumption DEF IInv, TypeOK
<1>1. CASE Start(h)
  <2>1. Begin(h)
    BY <1>1 DEF Start, StartJoin, StartLeave, StartManage, StartCreateRole, StartUpdateRole,
                StartDeleteRole, StartAssign, StartInvite
  <2>. QED
    BY <1>0, <2>1 DEF Begin
<1>2. CASE Continue(h)
  <2>1. UNCHANGED requests
    BY <1>2 DEF Continue, LockMember, Admit, Announce, Leave, AuthorizeManage, ManageRows,
                ManageStatus, AuthorizeActor, AuthorizeRole, CreateRole, UpdateRole, DeleteRole,
                AuthorizeAssign, AssignRole, RemoveRole, CreateInvite, RevokeInvite, Rollback
  <2>. QED
    BY <1>0, <2>1
<1>. QED
  BY <1>1, <1>2

LEMMA MembersStayTyped ==
  ASSUME IInv, NEW h \in Handlers, Start(h) \/ Continue(h)
  PROVE  MembersTyped'
<1>. USE DEF MembersTyped
<1>0. MembersTyped /\ job[h] \in Jobs /\ Sound(job[h]) /\ DefaultRole \in Roles
  BY ConstantsAssumption DEF IInv, TypeOK, JobInv
<1>r. requests' \in 0..MaxRequests
  BY RequestsStayTyped
<1>1. CASE ~Writes(h)
  BY <1>0, <1>1, <1>r, OthersOnlyRead DEF tables, ghosts
<1>2. CASE Admit(h)
  <2>1. job[h].user \in Users /\ job[h].id \in Invites
    BY <1>0, <1>2 DEF Admit, Sound
  <2>2. CASE CanWriteMembership(h)
    BY <1>0, <1>2, <1>r, <2>1, <2>2 DEF Admit, UseInvitation, WithDefaultRole, Statuses
  <2>3. CASE ~CanWriteMembership(h)
    BY <1>0, <1>2, <1>r, <2>3 DEF Admit
  <2>. QED
    BY <2>2, <2>3
<1>3. CASE Leave(h)
  <2>1. job[h].user \in Users
    BY <1>0, <1>3 DEF Leave, Sound
  <2>. QED
    BY <1>0, <1>3, <1>r, <2>1 DEF Leave, RemoveMembership, Statuses, ghosts
<1>4. CASE ManageStatus(h)
  <2>1. job[h].user \in Users /\ job[h].rows \in SUBSET Roles
    BY <1>0, <1>4 DEF ManageStatus, Sound, Jobs
  <2>2. CASE job[h].op = "mute"
    BY <1>0, <1>4, <1>r, <2>1, <2>2 DEF ManageStatus, Statuses, ghosts
  <2>3. CASE job[h].op = "restore"
    BY <1>0, <1>4, <1>r, <2>1, <2>3 DEF ManageStatus, Statuses, ghosts
  <2>4. CASE job[h].op \notin {"mute", "restore"}
    BY <1>0, <1>4, <1>r, <2>1, <2>4 DEF ManageStatus, RemoveMembership, Statuses, ghosts
  <2>. QED
    BY <2>2, <2>3, <2>4
<1>5. CASE (\E r \in Roles : CreateRole(h, r)) \/ UpdateRole(h)
  BY <1>0, <1>5, <1>r DEF CreateRole, UpdateRole
<1>6. CASE DeleteRole(h)
  BY <1>0, <1>6, <1>r DEF DeleteRole, ghosts
<1>7. CASE AssignRole(h) \/ RemoveRole(h)
  <2>1. job[h].user \in Users /\ job[h].id \in Roles
    BY <1>0, <1>7 DEF AssignRole, RemoveRole, Sound
  <2>2. holds' \in [Users -> SUBSET Roles]
    BY <1>0, <1>7, <2>1 DEF AssignRole, RemoveRole, WithoutRole
  <2>. QED
    BY <1>0, <1>7, <1>r, <2>2 DEF AssignRole, RemoveRole, ghosts
<1>8. CASE \E i \in Invites : CreateInvite(h, i) \/ RevokeInvite(h, i)
  <2>1. invite' \in [Invites -> {"unused", "active", "revoked"}]
    BY <1>0, <1>8 DEF CreateInvite, InsertInvitation, RevokeInvite, RevokedInvitation
  <2>. QED
    BY <1>0, <1>8, <1>r, <2>1 DEF CreateInvite, RevokeInvite, ghosts
<1>. QED
  BY <1>1, <1>2, <1>3, <1>4, <1>5, <1>6, <1>7, <1>8 DEF Writes

-----------------------------------------------------------------------------
(* What the table of roles looks like, and the grants it stays within.     *)
RoleInv ==
    /\ role \in [Roles -> [status : {"unused", "live", "deleted"}, bits : SUBSET Bits,
                           priority : Nat]]
    /\ granted \in SUBSET Bits
    /\ given \in SUBSET Nat
    /\ delegated \in SUBSET Roles
    /\ NoEscalation
    /\ PriorityInv
    /\ BelowTheTop
    /\ CreatedInv

(* A role that is written by the owner widens the grants, one written by   *)
(* somebody else is within them.                                           *)
LEMMA PutRoleKeepsGrants ==
  ASSUME IInv, NEW h \in Handlers, NEW r \in Roles, PutRole(h, r), UNCHANGED created,
         job[h].pc = "write", job[h].op # "delete"
  PROVE  RoleInv'
<1>. DEFINE j == job[h]
<1>0. RoleInv /\ j \in Jobs /\ Sound(j)
  BY DEF IInv, TypeOK, JobInv, RoleInv
<1>1. /\ j.bits \in SUBSET Bits /\ j.priority \in Nat
      /\ created
      /\ j.actor = Owner \/ (j.bits \subseteq granted /\ \E p \in given : j.priority < p)
  <2>1. j.bits \in SUBSET Bits /\ j.priority \in Nat
    BY <1>0 DEF Jobs
  <2>2. /\ created
        /\ j.actor = Owner \/ (j.bits \subseteq granted /\ \E p \in given : j.priority < p)
    BY <1>0 DEF Sound
  <2>. QED
    BY <2>1, <2>2
<1>2. /\ granted \subseteq granted' /\ given \subseteq given'
      /\ granted' \in SUBSET Bits /\ given' \in SUBSET Nat /\ delegated' \in SUBSET Roles
  BY <1>0, <1>1 DEF PutRole, RoleInv
<1>3. role' = [role EXCEPT ![r] = NewRole(j.bits, j.priority)]
  BY DEF PutRole
<1>4. role' \in [Roles -> [status : {"unused", "live", "deleted"}, bits : SUBSET Bits,
                           priority : Nat]]
  BY <1>0, <1>1, <1>3 DEF RoleInv, NewRole
<1>5. /\ role'[r].status = "live" /\ role'[r].bits = j.bits /\ role'[r].priority = j.priority
      /\ \A q \in Roles \ {r} : role'[q] = role[q]
  BY <1>0, <1>3 DEF RoleInv, NewRole
<1>6. NoEscalation'
  <2>1. j.bits \subseteq granted'
    BY <1>1, <1>2 DEF PutRole
  <2>. QED
    BY <1>0, <1>2, <1>5, <2>1 DEF NoEscalation, RoleInv
<1>7. PriorityInv'
  <2>1. \E p \in given' : j.priority <= p
    <3>1. CASE j.actor = Owner
      <4>1. j.priority \in given'
        BY <3>1 DEF PutRole
      <4>2. j.priority <= j.priority
        BY <1>1
      <4>. QED
        BY <4>1, <4>2
    <3>2. CASE j.actor # Owner
      <4>1. PICK p \in given : j.priority < p
        BY <1>1, <3>2
      <4>2. p \in given' /\ p \in Nat
        BY <1>0, <1>2, <4>1 DEF RoleInv
      <4>. QED
        BY <1>1, <4>1, <4>2
    <3>. QED
      BY <3>1, <3>2
  <2>. QED
    BY <1>0, <1>2, <1>5, <2>1 DEF PriorityInv, RoleInv
<1>8. BelowTheTop'
  <2>1. CASE j.actor = Owner
    BY <1>0, <1>2, <1>5, <2>1 DEF BelowTheTop, RoleInv, PutRole
  <2>2. CASE j.actor # Owner
    BY <1>0, <1>1, <1>2, <1>5, <2>2 DEF BelowTheTop, RoleInv, PutRole
  <2>. QED
    BY <2>1, <2>2
<1>9. CreatedInv'
  BY <1>0, <1>1, <1>2, <1>5, ConstantsAssumption DEF CreatedInv, RoleInv
<1>. QED
  BY <1>2, <1>4, <1>6, <1>7, <1>8, <1>9 DEF RoleInv

LEMMA DeletingKeepsGrants ==
  ASSUME IInv, NEW h \in Handlers, DeleteRole(h)
  PROVE  RoleInv'
<1>. DEFINE j == job[h]
            r == j.id
<1>0. RoleInv /\ Sound(j)
  BY DEF IInv, TypeOK, JobInv, RoleInv
<1>1. r \in Roles /\ r # DefaultRole
  BY <1>0 DEF DeleteRole, Sound
<1>2. UNCHANGED <<created, granted, given, delegated>>
  BY DEF DeleteRole, ghosts
<1>3. role' = [role EXCEPT ![r] = [status |-> "deleted", bits |-> {}, priority |-> 0]]
  BY DEF DeleteRole, WithoutRoleRow
<1>4. role' \in [Roles -> [status : {"unused", "live", "deleted"}, bits : SUBSET Bits,
                           priority : Nat]]
  BY <1>0, <1>1, <1>3 DEF RoleInv
<1>5. /\ role'[r].status = "deleted" /\ role'[r].bits = {} /\ role'[r].priority = 0
      /\ \A q \in Roles \ {r} : role'[q] = role[q]
  BY <1>0, <1>1, <1>3 DEF RoleInv
<1>6. NoEscalation'
  BY <1>0, <1>2, <1>5 DEF NoEscalation, RoleInv
<1>7. PriorityInv'
  <2>1. 0 \in given' /\ role'[r].priority <= 0
    BY <1>0, <1>2, <1>5 DEF RoleInv, CreatedInv
  <2>2. \A q \in Roles \ {r} : \E p \in given' : role'[q].priority <= p
    BY <1>0, <1>2, <1>5 DEF PriorityInv, RoleInv
  <2>. QED
    BY <2>1, <2>2 DEF PriorityInv
<1>8. BelowTheTop'
  BY <1>0, <1>2, <1>5 DEF BelowTheTop, RoleInv
<1>9. CreatedInv'
  BY <1>0, <1>1, <1>2, <1>5, ConstantsAssumption DEF CreatedInv, RoleInv
<1>. QED
  BY <1>0, <1>2, <1>4, <1>6, <1>7, <1>8, <1>9 DEF RoleInv

LEMMA RolesStayWithinGrants ==
  ASSUME IInv, NEW h \in Handlers, Start(h) \/ Continue(h)
  PROVE  RoleInv'
<1>0. RoleInv /\ Sound(job[h])
  BY DEF IInv, TypeOK, JobInv, RoleInv
<1>1. CASE \E r \in Roles : CreateRole(h, r)
  BY <1>1, PutRoleKeepsGrants DEF CreateRole
<1>2. CASE UpdateRole(h) /\ RoleExists(job[h].id)
  <2>1. job[h].id \in Roles
    BY <1>0, <1>2 DEF UpdateRole, Sound
  <2>. QED
    BY <1>2, <2>1, PutRoleKeepsGrants DEF UpdateRole
<1>3. CASE DeleteRole(h)
  BY <1>3, DeletingKeepsGrants
<1>4. ASSUME UNCHANGED <<created, role, granted, given, delegated>>
      PROVE  RoleInv'
  BY <1>0, <1>4 DEF RoleInv, NoEscalation, PriorityInv, BelowTheTop, CreatedInv
<1>5. CASE UpdateRole(h) /\ ~RoleExists(job[h].id)
  BY <1>4, <1>5 DEF UpdateRole
<1>6. CASE ~Writes(h)
  BY <1>4, <1>6, OthersOnlyRead DEF tables, ghosts
<1>7. CASE Admit(h) \/ Leave(h) \/ ManageStatus(h) \/ AssignRole(h) \/ RemoveRole(h)
  BY <1>4, <1>7 DEF Admit, Leave, ManageStatus, AssignRole, RemoveRole, ghosts
<1>8. CASE \E i \in Invites : CreateInvite(h, i) \/ RevokeInvite(h, i)
  BY <1>4, <1>8 DEF CreateInvite, RevokeInvite, ghosts
<1>. QED
  BY <1>1, <1>2, <1>3, <1>5, <1>6, <1>7, <1>8 DEF Writes

-----------------------------------------------------------------------------
(* Only live roles are given, and a role is taken from everybody with its  *)
(* row.                                                                    *)
LEMMA HeldRolesStay ==
  ASSUME IInv, NEW h \in Handlers, Start(h) \/ Continue(h)
  PROVE  HeldRolesExist'
<1>0. /\ HeldRolesExist /\ Sound(job[h]) /\ job[h] \in Jobs
      /\ holds \in [Users -> SUBSET Roles]
      /\ DefaultRole \in Roles
      /\ created => role[DefaultRole].status = "live"
  BY ConstantsAssumption DEF IInv, TypeOK, JobInv, CreatedInv
<1>1. ASSUME UNCHANGED role,
             \A u \in Users : holds'[u] \subseteq holds[u]
      PROVE  HeldRolesExist'
  BY <1>0, <1>1 DEF HeldRolesExist
<1>2. CASE ~Writes(h)
  BY <1>1, <1>2, OthersOnlyRead DEF tables
<1>3. CASE Admit(h)
  <2>1. created /\ job[h].user \in Users
    BY <1>0, <1>3 DEF Admit, Sound
  <2>2. CASE CanWriteMembership(h)
    BY <1>0, <1>3, <2>1, <2>2 DEF Admit, WithDefaultRole, HeldRolesExist
  <2>3. CASE ~CanWriteMembership(h)
    BY <1>1, <1>3, <2>3 DEF Admit
  <2>. QED
    BY <2>2, <2>3
<1>4. CASE Leave(h)
  <2>1. \A u \in Users : holds'[u] \subseteq holds[u]
    BY <1>0, <1>4 DEF Leave, RemoveMembership
  <2>. QED
    BY <1>1, <1>4, <2>1 DEF Leave
<1>5. CASE ManageStatus(h)
  <2>0. created /\ job[h].user \in Users /\ (job[h].op = "restore" => job[h].rows \subseteq {DefaultRole})
    BY <1>0, <1>5 DEF ManageStatus, Sound
  <2>1. CASE job[h].op = "restore"
    BY <1>0, <1>5, <2>0, <2>1 DEF ManageStatus, HeldRolesExist
  <2>2. CASE job[h].op = "mute"
    BY <1>1, <1>5, <2>2 DEF ManageStatus
  <2>3. CASE job[h].op \notin {"mute", "restore"}
    <3>1. \A u \in Users : holds'[u] \subseteq holds[u]
      BY <1>0, <1>5, <2>3 DEF ManageStatus, RemoveMembership
    <3>. QED
      BY <1>1, <1>5, <3>1 DEF ManageStatus
  <2>. QED
    BY <2>1, <2>2, <2>3
<1>6. ASSUME NEW r \in Roles, PutRole(h, r), UNCHANGED holds
      PROVE  HeldRolesExist'
  <2>1. /\ role \in [Roles -> [status : {"unused", "live", "deleted"}, bits : SUBSET Bits,
                               priority : Nat]]
        /\ role' = [role EXCEPT ![r] = NewRole(job[h].bits, job[h].priority)]
    BY <1>6 DEF PutRole, IInv, TypeOK
  <2>2. \A q \in Roles : role[q].status = "live" => role'[q].status = "live"
    BY <2>1 DEF NewRole
  <2>. QED
    BY <1>0, <1>6, <2>2 DEF HeldRolesExist
<1>7. CASE \E r \in Roles : CreateRole(h, r)
  BY <1>6, <1>7 DEF CreateRole
<1>8. CASE UpdateRole(h)
  <2>1. job[h].id \in Roles
    BY <1>0, <1>8 DEF UpdateRole, Sound
  <2>2. CASE RoleExists(job[h].id)
    BY <1>6, <1>8, <2>1, <2>2 DEF UpdateRole
  <2>3. CASE ~RoleExists(job[h].id)
    BY <1>1, <1>8, <2>3 DEF UpdateRole
  <2>. QED
    BY <2>2, <2>3
<1>9. CASE DeleteRole(h)
  <2>1. \A u \in Users : holds'[u] = holds[u] \ {job[h].id}
    BY <1>9 DEF DeleteRole
  <2>2. \A q \in Roles : q # job[h].id => role'[q] = role[q]
    BY <1>9 DEF DeleteRole, WithoutRoleRow, IInv, TypeOK
  <2>. QED
    BY <1>0, <2>1, <2>2 DEF HeldRolesExist
<1>10. CASE AssignRole(h)
  <2>1. job[h].user \in Users /\ UNCHANGED role
    BY <1>0, <1>10 DEF AssignRole, Sound
  <2>2. CASE RoleExists(job[h].id)
    BY <1>0, <1>10, <2>1, <2>2 DEF AssignRole, RoleExists, HeldRolesExist
  <2>3. CASE ~RoleExists(job[h].id)
    BY <1>1, <1>10, <2>3 DEF AssignRole
  <2>. QED
    BY <2>2, <2>3
<1>11. CASE RemoveRole(h)
  <2>1. \A u \in Users : holds'[u] \subseteq holds[u]
    BY <1>0, <1>11 DEF RemoveRole, WithoutRole
  <2>. QED
    BY <1>1, <1>11, <2>1 DEF RemoveRole
<1>12. CASE \E i \in Invites : CreateInvite(h, i) \/ RevokeInvite(h, i)
  BY <1>1, <1>12 DEF CreateInvite, RevokeInvite
<1>. QED
  BY <1>2, <1>3, <1>4, <1>5, <1>7, <1>8, <1>9, <1>10, <1>11, <1>12 DEF Writes

-----------------------------------------------------------------------------
LEMMA InitIInv ==
  ASSUME Init
  PROVE  IInv
<1>. USE DEF Init
<1>1. TypeOK
  <2>1. requests \in 0..MaxRequests
    BY ConstantsAssumption
  <2>2. job \in [Handlers -> Jobs]
    BY IdleMoves
  <2>3. role \in [Roles -> [status : {"unused", "live", "deleted"}, bits : SUBSET Bits,
                            priority : Nat]]
    OBVIOUS
  <2>4. granted \in SUBSET Bits /\ given \in SUBSET Nat /\ delegated \in SUBSET Roles
    BY ConstantsAssumption
  <2>5. member \in [Users -> Statuses] /\ holds \in [Users -> SUBSET Roles]
    BY DEF Statuses
  <2>6. /\ invite \in [Invites -> {"unused", "active", "revoked"}]
        /\ admitted \in [Invites -> Nat]
        /\ created \in BOOLEAN
    OBVIOUS
  <2>. QED
    BY <2>1, <2>2, <2>3, <2>4, <2>5, <2>6 DEF TypeOK
<1>2. JobInv
  BY IdleMoves DEF JobInv
<1>3. NoEscalation /\ BelowTheTop /\ HeldRolesExist
  BY DEF NoEscalation, BelowTheTop, HeldRolesExist
<1>4. PriorityInv /\ CreatedInv
  BY DEF PriorityInv, CreatedInv
<1>. QED
  BY <1>1, <1>2, <1>3, <1>4 DEF IInv

LEMMA CreateServerIInv ==
  ASSUME IInv, CreateServer
  PROVE  IInv'
<1>. USE DEF CreateServer
<1>0. DefaultRole \in Roles /\ Owner \in Users /\ DefaultBits \subseteq Bits
  BY ConstantsAssumption
<1>1. PICK i \in Invites : InsertInvitation(i)
  OBVIOUS
<1>2. /\ invite \in [Invites -> {"unused", "active", "revoked"}]
      /\ invite' = [invite EXCEPT ![i] = "active"]
      /\ invite[i] = "unused"
  BY <1>1 DEF InsertInvitation, IInv, TypeOK
<1>3. /\ role \in [Roles -> [status : {"unused", "live", "deleted"}, bits : SUBSET Bits,
                             priority : Nat]]
      /\ role' = [role EXCEPT ![DefaultRole] = NewRole(DefaultBits, 0)]
  BY DEF InsertDefaultRole, IInv, TypeOK
<1>4. /\ role'[DefaultRole].status = "live" /\ role'[DefaultRole].bits = DefaultBits
      /\ role'[DefaultRole].priority = 0
      /\ \A r \in Roles \ {DefaultRole} : role'[r] = role[r]
  BY <1>0, <1>3 DEF NewRole
<1>5. TypeOK'
  <2>1. role' \in [Roles -> [status : {"unused", "live", "deleted"}, bits : SUBSET Bits,
                             priority : Nat]]
    BY <1>0, <1>3 DEF NewRole
  <2>2. member' \in [Users -> Statuses] /\ holds' \in [Users -> SUBSET Roles]
    BY <1>0 DEF InsertOwnerMembership, WithDefaultRole, Statuses, IInv, TypeOK
  <2>3. invite' \in [Invites -> {"unused", "active", "revoked"}]
    BY <1>2
  <2>. QED
    BY <2>1, <2>2, <2>3 DEF IInv, TypeOK, ghosts
<1>6. JobInv'
  <2>1. ASSUME NEW g \in Handlers
        PROVE  Sound(job[g])'
    <3>1. Sound(job[g]) /\ job[g].pc = "idle"
      BY DEF IInv, JobInv, Sound
    <3>. QED
      BY <3>1 DEF Sound
  <2>. QED
    BY <2>1 DEF JobInv
<1>7. NoEscalation'
  BY <1>4 DEF IInv, NoEscalation, CreatedInv, ghosts
<1>8. PriorityInv'
  <2>1. 0 \in given' /\ role'[DefaultRole].priority <= 0
    BY <1>4 DEF IInv, CreatedInv, ghosts
  <2>2. \A q \in Roles \ {DefaultRole} : \E p \in given' : role'[q].priority <= p
    BY <1>4 DEF IInv, PriorityInv, ghosts
  <2>. QED
    BY <2>1, <2>2 DEF PriorityInv
<1>9. BelowTheTop' /\ CreatedInv'
  BY <1>4 DEF IInv, CreatedInv, BelowTheTop, ghosts
<1>10. HeldRolesExist'
  <2>1. \A u \in Users : holds'[u] \subseteq holds[u] \cup {DefaultRole}
    BY DEF WithDefaultRole, IInv, TypeOK
  <2>. QED
    BY <1>4, <2>1 DEF IInv, TypeOK, HeldRolesExist
<1>. QED
  BY <1>5, <1>6, <1>7, <1>8, <1>9, <1>10 DEF IInv

LEMMA StutterIInv ==
  ASSUME IInv, UNCHANGED vars
  PROVE  IInv'
BY DEF IInv, TypeOK, JobInv, Sound, WithinGrants, NoEscalation, PriorityInv, BelowTheTop,
       HeldRolesExist, CreatedInv, vars, tables, ghosts

LEMMA NextIInv ==
  ASSUME IInv, [Next]_vars
  PROVE  IInv'
<1>1. CASE CreateServer
  BY <1>1, CreateServerIInv
<1>2. ASSUME NEW h \in Handlers, Start(h) \/ Continue(h)
      PROVE  IInv'
  <2>1. JobInv' /\ (job \in [Handlers -> Jobs])'
    BY <1>2, JobsStaySound
  <2>2. MembersTyped' /\ RoleInv' /\ HeldRolesExist'
    BY <1>2, MembersStayTyped, RolesStayWithinGrants, HeldRolesStay
  <2>3. TypeOK'
    BY <2>1, <2>2 DEF TypeOK, MembersTyped, RoleInv
  <2>. QED
    BY <2>1, <2>2, <2>3 DEF IInv, RoleInv
<1>3. CASE UNCHANGED vars
  BY <1>3, StutterIInv
<1>. QED
  BY <1>1, <1>2, <1>3 DEF Next

LEMMA AlwaysIInv == Spec => []IInv
BY InitIInv, NextIInv, PTL DEF Spec

-----------------------------------------------------------------------------
(* The variables keep to their types: memberships, roles, invitations and  *)
(* the requests of ServersService under way.                               *)
THEOREM TypesHold == Spec => []TypeOK
<1>1. IInv => TypeOK
  BY DEF IInv
<1>. QED
  BY <1>1, AlwaysIInv, PTL

(* However many requests on roles overlap, with whatever they have read    *)
(* before, no role ever has a bit that the owner did not put into          *)
(* circulation: assertCanMutateRole compares what is written with what the *)
(* actor held at some time, and what was held then was within the grants.  *)
THEOREM NoEscalationEver == Spec => []NoEscalation
<1>1. IInv => NoEscalation
  BY DEF IInv
<1>. QED
  BY <1>1, AlwaysIInv, PTL

(* The same of priorities: a role that somebody other than the owner wrote *)
(* last is strictly below one that the owner has made.                     *)
THEOREM RanksAreHandedDown == Spec => []BelowTheTop
<1>1. IInv => BelowTheTop
  BY DEF IInv
<1>. QED
  BY <1>1, AlwaysIInv, PTL

(* No membership keeps a role whose row is gone: the foreign key refuses   *)
(* late assignments and cascades over early ones, and the default role,    *)
(* which joining and restoring write untested, is never deleted.           *)
THEOREM NoRoleOutlivesItsRow == Spec => []HeldRolesExist
<1>1. IInv => HeldRolesExist
  BY DEF IInv
<1>. QED
  BY <1>1, AlwaysIInv, PTL

(* The row of an invitation stays locked from the moment a join has found  *)
(* it active until the member is admitted: a revocation either comes       *)
(* before, and refuses the join, or waits.                                 *)
THEOREM RevocationIsFinal == Spec => RevokedAdmitsNobody
<1>1. ASSUME IInv, [Next]_vars, NEW i \in Invites, invite[i] = "revoked"
      PROVE  admitted'[i] = admitted[i]
  <2>1. CASE CreateServer
    BY <2>1 DEF CreateServer, ghosts
  <2>2. ASSUME NEW h \in Handlers, Admit(h)
        PROVE  admitted'[i] = admitted[i]
    <3>1. invite[job[h].id] = "active"
      BY <1>1, <2>2 DEF IInv, JobInv, Sound, Admit
    <3>. QED
      BY <1>1, <2>2, <3>1 DEF Admit, UseInvitation, IInv, TypeOK
  <2>3. ASSUME NEW h \in Handlers, Start(h) \/ Continue(h), ~Admit(h)
        PROVE  UNCHANGED admitted
    <3>1. CASE ~Writes(h)
      BY <2>3, <3>1, OthersOnlyRead DEF ghosts
    <3>2. CASE Writes(h)
      BY <2>3, <3>2 DEF Writes, Leave, ManageStatus, CreateRole, UpdateRole, DeleteRole,
                        AssignRole, RemoveRole, CreateInvite, RevokeInvite, ghosts
    <3>. QED
      BY <3>1, <3>2
  <2>4. CASE UNCHANGED vars
    BY <2>4 DEF vars, ghosts
  <2>. QED
    BY <1>1, <2>1, <2>2, <2>3, <2>4 DEF Next
<1>2. IInv /\ [Next]_vars =>
        [\A i \in Invites : invite[i] = "revoked" => admitted'[i] = admitted[i]]_vars
  BY <1>1
<1>. QED
  BY <1>2, AlwaysIInv, PTL DEF Spec, RevokedAdmitsNobody
=============================================================================
